---- MODULE Spec2Model ----
(***************************************************************************)
(* A model of ifex: file-type classification, the EXIF tag table, the      *)
(* JPEG / TIFF / RAW processors, the ExifManager dispatch, the             *)
(* FileCollector batch loop, the DataManager equipment store and the       *)
(* interactive loop of the command line.                                   *)
(*                                                                         *)
(* JavaScript strings are modelled as sequences of one-character strings,  *)
(* so that basename, lastIndexOf, slice, toLowerCase and trim are computed *)
(* character by character as the code computes them.                      *)
(***************************************************************************)
EXTENDS Integers, Sequences, FiniteSets, TLC

VARIABLES
    tpath,      \* file types: the path handed to the classification functions
    tout,       \* file types: what the functions returned for tpath, or NotRun
    exifObj,    \* tags: the EXIF object handed to setExifValue
    setCall,    \* tags: the last setExifValue call (its arguments and the object before it)
    fpath,      \* one file: its path
    fdata,      \* one file: its contents
    fside,      \* one file: the sidecar at fpath + '.xmp'
    lastOp,     \* one file: the last ExifManager call (arguments, state before, result, steps)
    nOps,       \* one file: how many calls were made
    folder,     \* batch: the folder tree handed to processFolder
    args,       \* batch: selection, action and recursive of the processFolder call
    disk,       \* batch: the contents of every file of the tree, by path
    sidecars,   \* batch: the sidecar of every file of the tree, by path
    pc,         \* batch: where processFolder is ("idle", "loop", "returned")
    supportedFiles, \* batch: what collectFilesRecursively returned
    results,    \* batch: the results object of the loop
    ret,        \* batch: what processFolder returned
    calls,      \* batch: the ExifManager calls made so far, in order
    cli,        \* interactive loop: where runInteractive is, and its local variables
    session,    \* interactive loop: what happened so far (answers, calls, exits), in order
    store,      \* equipment store: the data of the DataManager
    storeCall   \* equipment store: the last DataManager call (arguments, data before, result)

typeVars == <<tpath, tout>>
tagVars == <<exifObj, setCall>>
fileVars == <<fpath, fdata, fside, lastOp, nOps>>
batchVars == <<folder, args, disk, sidecars, pc, supportedFiles, results, ret, calls>>
cliVars == <<cli, session>>
storeVars == <<store, storeCall>>
vars == <<tpath, tout, exifObj, setCall, fpath, fdata, fside, lastOp, nOps,
          folder, args, disk, sidecars, pc, supportedFiles, results, ret, calls,
          cli, session, store, storeCall>>

NotRun == [run |-> FALSE]

\* F(v), with v evaluated once however often F uses it (TLC evaluates an operator's
\* argument anew at each use; a bound variable holds a value)
Once(v, F(_)) == CHOOSE r \in {F(x) : x \in {v}} : TRUE

\* the parts of the state a specification does not use stay at these values
TypesIdle == tpath = <<>> /\ tout = NotRun
TagsIdle == exifObj = <<>> /\ setCall = NotRun
FileIdle == fpath = <<>> /\ fdata = NotRun /\ fside = NotRun /\ lastOp = NotRun /\ nOps = 0
BatchIdle ==
    /\ folder = NotRun /\ args = NotRun /\ disk = <<>> /\ sidecars = <<>> /\ pc = "idle"
    /\ supportedFiles = <<>> /\ results = NotRun /\ ret = NotRun /\ calls = <<>>
CliIdle == cli = NotRun /\ session = <<>>
StoreIdle == store = NotRun /\ storeCall = NotRun

(***************************************************************************)
(* Strings                                                                 *)
(***************************************************************************)
UpperAlpha == <<"A","B","C","D","E","F","G","H","I","J","K","L","M",
                "N","O","P","Q","R","S","T","U","V","W","X","Y","Z">>
LowerAlpha == <<"a","b","c","d","e","f","g","h","i","j","k","l","m",
                "n","o","p","q","r","s","t","u","v","w","x","y","z">>

IndexIn(alpha, c) == CHOOSE i \in 1..Len(alpha) : alpha[i] = c
IsIn(alpha, c) == \E i \in 1..Len(alpha) : alpha[i] = c

\* String.prototype.toLowerCase, on the characters the model uses
toLowerCase(s) ==
    Once(s, LAMBDA str :
        [i \in 1..Len(str) |->
            IF IsIn(UpperAlpha, str[i]) THEN LowerAlpha[IndexIn(UpperAlpha, str[i])]
            ELSE str[i]])

\* String.prototype.toUpperCase (used to build mixed-case inputs)
toUpperCase(s) ==
    Once(s, LAMBDA str :
        [i \in 1..Len(str) |->
            IF IsIn(LowerAlpha, str[i]) THEN UpperAlpha[IndexIn(LowerAlpha, str[i])]
            ELSE str[i]])

\* String.prototype.lastIndexOf for a one-character needle: 0-based, -1 when absent
lastIndexOf(s, c) ==
    Once(s, LAMBDA str :
        IF \E i \in 1..Len(str) : str[i] = c
        THEN (CHOOSE i \in 1..Len(str) :
                  str[i] = c /\ \A j \in (i+1)..Len(str) : str[j] # c) - 1
        ELSE -1)

\* String.prototype.slice(from) with a 0-based start
slice(s, from) == Once(s, LAMBDA str : SubSeq(str, from + 1, Len(str)))

RECURSIVE stripTrailingSlashes(_)
stripTrailingSlashes(p) ==
    Once(p, LAMBDA str :
        IF Len(str) > 0 /\ str[Len(str)] = "/"
        THEN stripTrailingSlashes(SubSeq(str, 1, Len(str) - 1))
        ELSE str)

\* path.basename (POSIX): trailing separators dropped, then the text after the last one
basename(p) ==
    Once(stripTrailingSlashes(p), LAMBDA q : slice(q, lastIndexOf(q, "/") + 1))

(***************************************************************************)
(* fileTypes.js                                                            *)
(***************************************************************************)
getFileExtension(filePath) ==
    Once(basename(filePath), LAMBDA fileName :
        Once(lastIndexOf(fileName, "."), LAMBDA lastDotIndex :
            IF lastDotIndex = -1 \/ lastDotIndex = Len(fileName) - 1
            THEN <<>>
            ELSE toLowerCase(slice(fileName, lastDotIndex + 1))))

JpegExts == { <<"j","p","g">>, <<"j","p","e","g">> }
TiffExts == { <<"t","i","f","f">>, <<"t","i","f">> }
DngExts  == { <<"d","n","g">> }
RawExts  == { <<"d","n","g">>, <<"c","r","2">>, <<"c","r","3">>, <<"n","e","f">>,
              <<"n","r","w">>, <<"a","r","w">>, <<"s","r","f">>, <<"s","r","2">>,
              <<"o","r","f">>, <<"r","w","2">>, <<"r","a","f">>, <<"s","r","w">>,
              <<"p","e","f">>, <<"x","3","f">>, <<"e","r","f">>, <<"m","e","f">>,
              <<"m","r","w">>, <<"d","c","r">>, <<"k","d","c">>, <<"3","f","r">>,
              <<"f","f","f">>, <<"i","i","q">>, <<"k","2","5">>, <<"r","w","l">> }

isJpegFile(filePath) == getFileExtension(filePath) \in JpegExts
isTiffFile(filePath) == getFileExtension(filePath) \in TiffExts
isDngFile(filePath)  == getFileExtension(filePath) \in DngExts
isRawFile(filePath)  == getFileExtension(filePath) \in RawExts

\* a slip that takes every file with an extension
isSupportedFileAnyExtension(filePath) == getFileExtension(filePath) # <<>>

isSupportedFile(filePath) ==
    isJpegFile(filePath) \/ isTiffFile(filePath) \/ isDngFile(filePath) \/ isRawFile(filePath)

\* a slip that tests the raw list before the dng list
getFileTypeRawFirst(filePath) ==
    Once(filePath, LAMBDA p :
        IF isJpegFile(p) THEN "jpeg"
        ELSE IF isTiffFile(p) THEN "tiff"
        ELSE IF isRawFile(p) THEN "raw"
        ELSE IF isDngFile(p) THEN "dng"
        ELSE "unknown")

getFileType(filePath) ==
    Once(filePath, LAMBDA p :
        IF isJpegFile(p) THEN "jpeg"
        ELSE IF isTiffFile(p) THEN "tiff"
        ELSE IF isDngFile(p) THEN "dng"
        ELSE IF isRawFile(p) THEN "raw"
        ELSE "unknown")

(***************************************************************************)
(* Inputs of the classification functions: directory prefix, stem, tail.   *)
(***************************************************************************)
OtherExts == { <<"p","n","g">>, <<"t","x","t">>, <<"j","p">>, <<"j","p","g","x">>,
               <<"h","i","d","d","e","n">>, <<"x","m","p">> }

AllExts == JpegExts \cup TiffExts \cup DngExts \cup RawExts \cup OtherExts

Capitalize(s) == [i \in 1..Len(s) |-> IF i = 1 THEN toUpperCase(<<s[1]>>)[1] ELSE s[i]]

DirPrefixes == { <<>>, <<"/","p","a","t","h","/","t","o","/">>, <<"d",".","j","p","g","/">> }
Stems == { <<>>, <<"f","i","l","e">>, <<"a",".","b">>, <<"I","M","G",".","t","i","f">> }
Tails == { <<>>, <<".">>, <<"/">> }
           \cup { <<".">> \o e : e \in AllExts }
           \cup { <<".">> \o toUpperCase(e) : e \in AllExts }
           \cup { <<".">> \o Capitalize(e) : e \in AllExts }

TypePaths == { d \o s \o t : d \in DirPrefixes, s \in Stems, t \in Tails }

TypesInit ==
    /\ tpath \in TypePaths
    /\ tout = NotRun
    /\ TagsIdle /\ FileIdle /\ BatchIdle /\ CliIdle /\ StoreIdle

\* one call of each exported function of fileTypes.js on the same path
Classify ==
    /\ tout = NotRun
    /\ tout' = [ run       |-> TRUE,
                 ext       |-> getFileExtension(tpath),
                 jpeg      |-> isJpegFile(tpath),
                 tiff      |-> isTiffFile(tpath),
                 dng       |-> isDngFile(tpath),
                 raw       |-> isRawFile(tpath),
                 supported |-> isSupportedFile(tpath),
                 type      |-> getFileType(tpath) ]
    /\ UNCHANGED <<tpath, tagVars, fileVars, batchVars, cliVars, storeVars>>

TypesNext == Classify

SpecTypes == TypesInit /\ [][TypesNext]_vars

(***************************************************************************)
(* JavaScript values                                                       *)
(***************************************************************************)
Null == [t |-> "null"]
Undefined == [t |-> "undefined"]
NaN == [t |-> "nan"]
Str(s) == [t |-> "string", s |-> s]
Num(n) == [t |-> "number", n |-> n]
Arr(a) == [t |-> "array", a |-> a]
Bool(b) == [t |-> "boolean", b |-> b]

IsWhitespace(c) == c \in {" ", "\t", "\n"}

RECURSIVE trimStart(_)
trimStart(s) ==
    Once(s, LAMBDA str :
        IF Len(str) > 0 /\ IsWhitespace(str[1]) THEN trimStart(Tail(str)) ELSE str)

RECURSIVE trimEnd(_)
trimEnd(s) ==
    Once(s, LAMBDA str :
        IF Len(str) > 0 /\ IsWhitespace(str[Len(str)])
        THEN trimEnd(SubSeq(str, 1, Len(str) - 1)) ELSE str)

\* String.prototype.trim
trim(s) == trimEnd(trimStart(s))

\* the values for which !value is true
Falsy(v) ==
    Once(v, LAMBDA x :
        \/ x.t \in {"null", "undefined", "nan"}
        \/ x.t = "number" /\ x.n = 0
        \/ x.t = "string" /\ x.s = <<>>
        \/ x.t = "boolean" /\ ~x.b)

Truthy(v) == ~Falsy(v)

(***************************************************************************)
(* tags.js                                                                 *)
(***************************************************************************)
ImageIFD_Make == 271
ImageIFD_Model == 272
ImageIFD_Artist == 315
ExifIFD_FNumber == 33437
ExifIFD_ISOSpeedRatings == 34855
ExifIFD_ISOSpeed == 34867
ExifIFD_FocalLength == 37386
ExifIFD_LensMake == 42035
ExifIFD_LensModel == 42036

EXIF_TAGS ==
    [ cameraMaker  |-> <<"0th", ImageIFD_Make>>,
      cameraModel  |-> <<"0th", ImageIFD_Model>>,
      lensMaker    |-> <<"Exif", ExifIFD_LensMake>>,
      lensModel    |-> <<"Exif", ExifIFD_LensModel>>,
      focalLength  |-> <<"Exif", ExifIFD_FocalLength>>,
      fNumber      |-> <<"Exif", ExifIFD_FNumber>>,
      filmISO      |-> <<"Exif", ExifIFD_ISOSpeedRatings>>,
      shotISO      |-> <<"Exif", ExifIFD_ISOSpeed>>,
      photographer |-> <<"0th", ImageIFD_Artist>> ]

ConfigKeys == DOMAIN EXIF_TAGS

\* obj[key] = value on a JavaScript object modelled as a function
Put(obj, key, value) == (key :> value) @@ obj

\* obj[ifd][tag] = value, the bucket obj[ifd] created when it is missing
PutSlot(obj, ifd, tag, value) ==
    Once(obj, LAMBDA o :
        Put(o, ifd, Put(IF ifd \in DOMAIN o THEN o[ifd] ELSE <<>>, tag, value)))

\* a slip that drops the whitespace test
setExifValueNoTrim(obj, configKey, value) ==
    Once(value, LAMBDA v :
        IF Falsy(v)
        THEN obj
        ELSE PutSlot(obj, EXIF_TAGS[configKey][1], EXIF_TAGS[configKey][2], v))

\* the EXIF object after setExifValue(exifObj, configKey, value)
setExifValue(obj, configKey, value) ==
    Once(value, LAMBDA v :
        IF Falsy(v) \/ (v.t = "string" /\ trim(v.s) = <<>>)
        THEN obj
        ELSE PutSlot(obj, EXIF_TAGS[configKey][1], EXIF_TAGS[configKey][2], v))

createCleanExifObject ==
    [k \in {"0th", "Exif", "GPS", "Interop", "1st", "thumbnail"} |->
        IF k = "thumbnail" THEN Null ELSE <<>>]

(***************************************************************************)
(* Calls of setExifValue on a small family of EXIF objects.                *)
(***************************************************************************)
MaxSetCalls == 2

SetValues ==
    { Null, Undefined, NaN, Num(0), Num(400), Bool(FALSE), Bool(TRUE),
      Str(<<>>), Str(<<" ">>), Str(<<" ", "\t", "\n">>),
      Str(<<"M","7">>), Str(<<" ","M"," ">>),
      Arr(<<200>>), Arr(<<>>) }

InitialExifObjs ==
    { <<>>,
      createCleanExifObject,
      [k \in {"0th"} |-> (ImageIFD_Make :> Str(<<"o","l","d">>))],
      [k \in {"Exif", "GPS"} |->
          IF k = "Exif" THEN (ExifIFD_ISOSpeedRatings :> Arr(<<100>>)) ELSE (1 :> Num(2))] }

TagsInit ==
    /\ exifObj \in InitialExifObjs
    /\ setCall = [run |-> FALSE, n |-> 0]
    /\ TypesIdle /\ FileIdle /\ BatchIdle /\ CliIdle /\ StoreIdle

SetExifValueCall ==
    /\ setCall.n < MaxSetCalls
    /\ \E configKey \in ConfigKeys, value \in SetValues :
          /\ exifObj' = setExifValue(exifObj, configKey, value)
          /\ setCall' = [ run |-> TRUE, n |-> setCall.n + 1, before |-> exifObj,
                          configKey |-> configKey, value |-> value ]
    /\ UNCHANGED <<typeVars, fileVars, batchVars, cliVars, storeVars>>

TagsNext == SetExifValueCall

SpecTags == TagsInit /\ [][TagsNext]_vars

(***************************************************************************)
(* models.js: Lens                                                         *)
(***************************************************************************)
Obj(fields) == fields @@ [t |-> "object"]

Digits == <<"0","1","2","3","4","5","6","7","8","9">>
IsDigit(c) == IsIn(Digits, c)
DigitVal(c) == IndexIn(Digits, c) - 1

RECURSIVE NatToString(_)
NatToString(n) ==
    IF n < 10 THEN <<Digits[n + 1]>> ELSE NatToString(n \div 10) \o <<Digits[(n % 10) + 1]>>

\* `${value}` for the values a Selection carries
TemplateString(v) ==
    Once(v, LAMBDA x :
        CASE x.t = "string" -> x.s
          [] x.t = "number" -> NatToString(x.n)
          [] x.t = "null" -> <<"n","u","l","l">>
          [] x.t = "undefined" -> <<"u","n","d","e","f","i","n","e","d">>
          [] OTHER -> <<"?">>)

RECURSIVE JoinWith(_, _)
JoinWith(parts, sep) ==
    Once(parts, LAMBDA ps :
        IF Len(ps) = 0 THEN <<>>
        ELSE IF Len(ps) = 1 THEN ps[1]
        ELSE ps[1] \o sep \o JoinWith(Tail(ps), sep))

getLensModelWithAperture(lens) ==
  Once(lens, LAMBDA l :
    LET p1 == IF Truthy(l.model) THEN <<TemplateString(l.model)>> ELSE <<>>
        p2 == IF Truthy(l.focalLength)
              THEN <<TemplateString(l.focalLength) \o <<"m","m">>>> ELSE <<>>
        p3 == IF Truthy(l.aperture)
              THEN <<<<"f","/">> \o TemplateString(l.aperture)>> ELSE <<>>
    IN  Str(JoinWith(p1 \o p2 \o p3, <<" ">>)))

(***************************************************************************)
(* Number parsing used by setAllExifValues                                 *)
(***************************************************************************)
RECURSIVE LeadingDigits(_)
LeadingDigits(s) ==
    Once(s, LAMBDA str :
        IF Len(str) > 0 /\ IsDigit(str[1])
        THEN <<str[1]>> \o LeadingDigits(Tail(str)) ELSE <<>>)

RECURSIVE DigitsValue(_)
DigitsValue(ds) ==
    Once(ds, LAMBDA d :
        IF Len(d) = 0 THEN 0
        ELSE DigitsValue(SubSeq(d, 1, Len(d) - 1)) * 10 + DigitVal(d[Len(d)]))

RECURSIVE Pow10(_)
Pow10(k) == IF k = 0 THEN 1 ELSE 10 * Pow10(k - 1)

\* parseInt(string): leading whitespace skipped, then the leading run of digits; NaN when
\* there is none
parseInt(v) ==
    Once(LeadingDigits(trimStart(TemplateString(v))), LAMBDA ds :
        IF Len(ds) = 0 THEN NaN ELSE Num(DigitsValue(ds)))

\* parseFloat(string) as an exact decimal [num / 10^scale]; NaN when no number starts the text
parseFloat(v) ==
    Once(trimStart(TemplateString(v)), LAMBDA s :
    Once(LeadingDigits(s), LAMBDA ip :
    Once(SubSeq(s, Len(ip) + 1, Len(s)), LAMBDA rest :
    Once(IF Len(rest) > 0 /\ rest[1] = "." THEN LeadingDigits(Tail(rest)) ELSE <<>>,
         LAMBDA fp :
        IF Len(ip) = 0 /\ Len(fp) = 0 THEN NaN
        ELSE [t |-> "decimal", num |-> DigitsValue(ip \o fp), scale |-> Len(fp)]))))

\* Math.round(x * 10) for a parsed decimal (half rounds up)
RoundTimes10(x) ==
    Once(x, LAMBDA d :
        IF d.t = "nan" THEN NaN
        ELSE Once(Pow10(d.scale), LAMBDA den : Num((2 * d.num * 10 + den) \div (2 * den))))

(***************************************************************************)
(* Selection                                                               *)
(***************************************************************************)
\* what validateSelection throws, or "" when it returns
validateSelection(selection) ==
    IF Falsy(selection) THEN "Selection object is required"
    ELSE IF Falsy(selection.setup) \/ Falsy(selection.setup.camera) \/ Falsy(selection.setup.lens)
    THEN "Selection must include setup with camera and lens"
    ELSE IF Falsy(selection.film) THEN "Selection must include film information"
    ELSE ""

\* JavaScript !== on the number / undefined values shotISO and film.iso take
StrictNotEqual(a, b) == a.t = "nan" \/ b.t = "nan" \/ a # b

(***************************************************************************)
(* File contents.  A file is the format its bytes really have (whatever    *)
(* its name says), its metadata and the rest of its bytes.                 *)
(***************************************************************************)
NoExif == [t |-> "none"]
CorruptExif == [t |-> "corrupt"]
ExifSegment(ifds) == [t |-> "segment", ifds |-> ifds]

\* the bytes outside the metadata: of a JPEG, of a TIFF, of a file that is neither
JpegScan == <<255, 218, 0, 128, 65>>
TiffStrips == <<0, 200, 7>>
OtherBytes == <<104, 105>>

JpegFile(exif, scan) == [fmt |-> "jpeg", exif |-> exif, scan |-> scan]
TiffFile(ifd, scan)  == [fmt |-> "tiff", ifd |-> ifd, scan |-> scan]
OtherFile(bytes)     == [fmt |-> "other", scan |-> bytes]

IfdNames == {"0th", "Exif", "GPS", "Interop", "1st"}

(***************************************************************************)
(* piexifjs, as far as the JPEG processor relies on it                     *)
(***************************************************************************)
\* piexif.load: throws on data that is no JPEG and on a segment it cannot read; a JPEG
\* without a segment loads as the empty structure
piexifLoad(file) ==
    Once(file, LAMBDA fl :
        IF fl.fmt # "jpeg" \/ fl.exif = CorruptExif THEN [ok |-> FALSE]
        ELSE IF fl.exif = NoExif THEN [ok |-> TRUE, obj |-> createCleanExifObject]
        ELSE [ok |-> TRUE,
              obj |-> [k \in IfdNames \cup {"thumbnail"} |->
                          IF k = "thumbnail" THEN Null
                          ELSE IF k \in DOMAIN fl.exif.ifds THEN fl.exif.ifds[k] ELSE <<>>]])

\* piexif.dump: the serialized segment holds the IFDs that have tags
piexifDump(obj) ==
    Once(obj, LAMBDA o :
        ExifSegment([k \in {n \in IfdNames \cap DOMAIN o : DOMAIN o[n] # {}} |-> o[k]]))

\* piexif.insert: replaces the segment of a JPEG, throws on anything else
piexifInsert(segment, file) ==
    IF file.fmt # "jpeg" THEN [ok |-> FALSE]
    ELSE [ok |-> TRUE, file |-> JpegFile(segment, file.scan)]

\* piexif.remove: drops the segment of a JPEG, throws on anything else
piexifRemove(file) ==
    IF file.fmt # "jpeg" THEN [ok |-> FALSE]
    ELSE [ok |-> TRUE, file |-> JpegFile(NoExif, file.scan)]

(***************************************************************************)
(* jpegProcessor.js                                                        *)
(***************************************************************************)
OrUnknown(v) == IF Truthy(v) THEN v ELSE Str(<<"U","n","k","n","o","w","n">>)

ShotISODiffers(selection) ==
    Truthy(selection.shotISO) /\ StrictNotEqual(selection.shotISO, selection.film.iso)

setAllExifValues(obj, selection) ==
  Once(selection.setup.lens, LAMBDA lens :
    LET o1 == setExifValue(obj, "cameraMaker", selection.setup.camera.maker)
        o2 == setExifValue(o1, "cameraModel", selection.setup.camera.model)
        o3 == setExifValue(o2, "photographer", selection.photographer)
        o4 == setExifValue(o3, "filmISO", Arr(<<selection.film.iso>>))
        o5 == IF ShotISODiffers(selection)
              THEN setExifValue(o4, "shotISO", selection.shotISO) ELSE o4
        o6 == setExifValue(o5, "lensMaker", lens.maker)
        o7 == setExifValue(o6, "lensModel", getLensModelWithAperture(lens))
        o8 == IF Truthy(lens.focalLength)
              THEN setExifValue(o7, "focalLength", Arr(<<parseInt(lens.focalLength), Num(1)>>))
              ELSE o7
        o9 == IF Truthy(lens.aperture)
              THEN setExifValue(o8, "fNumber",
                                Arr(<<RoundTimes10(parseFloat(lens.aperture)), Num(10)>>))
              ELSE o8
    IN  o9)

\* direct assignment obj[ifd][tag] = value
Assign(obj, ifd, tag, value) == Once(obj, LAMBDA o : Put(o, ifd, Put(o[ifd], tag, value)))

basicExifObj(selection) ==
    LET b0 == createCleanExifObject
        b1 == IF Truthy(selection.setup.camera.maker)
              THEN Assign(b0, "0th", ImageIFD_Make, selection.setup.camera.maker) ELSE b0
        b2 == IF Truthy(selection.setup.camera.model)
              THEN Assign(b1, "0th", ImageIFD_Model, selection.setup.camera.model) ELSE b1
        b3 == IF Truthy(selection.photographer)
              THEN Assign(b2, "0th", ImageIFD_Artist, selection.photographer) ELSE b2
        b4 == IF Truthy(selection.film.iso)
              THEN Assign(b3, "Exif", ExifIFD_ISOSpeedRatings, Arr(<<selection.film.iso>>)) ELSE b3
        b5 == IF ShotISODiffers(selection)
              THEN Assign(b4, "Exif", ExifIFD_ISOSpeed, selection.shotISO) ELSE b4
    IN  b5

minimalExifObj(selection) ==
    LET m0 == [k \in IfdNames \cup {"thumbnail"} |->
                  CASE k = "thumbnail" -> Null
                    [] k = "0th" -> (ImageIFD_Make :> OrUnknown(selection.setup.camera.maker))
                                    @@ (ImageIFD_Model :> OrUnknown(selection.setup.camera.model))
                                    @@ (ImageIFD_Artist :> OrUnknown(selection.photographer))
                    [] k = "Exif" -> (ExifIFD_ISOSpeedRatings :> Arr(<<selection.film.iso>>))
                    [] OTHER -> <<>>]
    IN  IF ShotISODiffers(selection) /\ selection.shotISO.t = "number"
        THEN Assign(m0, "Exif", ExifIFD_ISOSpeed, selection.shotISO)
        ELSE m0

\* a slip that decodes the file as UTF-8 (the default of toString): a byte that starts no
\* UTF-8 sequence becomes U+FFFD
toStringUtf8(data) ==
    [data EXCEPT !.scan = [i \in 1..Len(@) |-> IF @[i] >= 128 THEN 65533 ELSE @[i]]]

\* data.toString('binary'): one character per byte, with the byte as its code
toStringBinary(data) == [data EXCEPT !.scan = [i \in 1..Len(@) |-> @[i]]]

\* Buffer.from(string, 'binary'): one byte per character, the low eight bits of its code
BufferFromBinary(str) == [str EXCEPT !.scan = [i \in 1..Len(@) |-> @[i] % 256]]

\* a slip that goes from the full tier straight to the minimal one
SerializeTiersSkipBasic(fullObj, selection, dumpFails) ==
    IF dumpFails = 0 THEN
        [ok |-> TRUE, tier |-> "full", segment |-> piexifDump(fullObj),
         events |-> <<"dump:full">>]
    ELSE IF dumpFails \in {1, 2} THEN
        [ok |-> TRUE, tier |-> "minimal", segment |-> piexifDump(minimalExifObj(selection)),
         events |-> <<"dump:full:throw", "dump:minimal">>]
    ELSE
        [ok |-> FALSE, tier |-> "none",
         events |-> <<"dump:full:throw", "dump:minimal:throw">>]

\* The serialization chain of applyExifToFile / createBasicExif / createMinimalExif.
\* dumpFails is how many of the successive piexif.dump calls throw (0..3).
SerializeTiers(fullObj, selection, dumpFails) ==
    IF dumpFails = 0 THEN
        [ok |-> TRUE, tier |-> "full", segment |-> piexifDump(fullObj),
         events |-> <<"dump:full">>]
    ELSE IF dumpFails = 1 THEN
        [ok |-> TRUE, tier |-> "basic", segment |-> piexifDump(basicExifObj(selection)),
         events |-> <<"dump:full:throw", "dump:basic">>]
    ELSE IF dumpFails = 2 THEN
        [ok |-> TRUE, tier |-> "minimal", segment |-> piexifDump(minimalExifObj(selection)),
         events |-> <<"dump:full:throw", "dump:basic:throw", "dump:minimal">>]
    ELSE
        [ok |-> FALSE, tier |-> "none",
         events |-> <<"dump:full:throw", "dump:basic:throw", "dump:minimal:throw">>]

\* the result of one processor call: what it returned, the file and the sidecar afterwards,
\* and the steps it went through
Out(success, file, side, events) ==
    [success |-> success, file |-> file, side |-> side, events |-> events]

\* applyExifToFile after validateSelection returned: read, load, populate, serialize,
\* insert, write
\* a slip that treats a segment piexif.load cannot read as an error of apply
JpegApplyValidatedLoadFails(file, side, selection, env) ==
    IF env.readFail THEN Out(FALSE, file, side, <<"jpeg", "validate", "read:throw">>)
    ELSE
      Once(toStringBinary(file), LAMBDA jpegData :
      Once(piexifLoad(jpegData), LAMBDA loaded :
        IF ~loaded.ok THEN Out(FALSE, file, side, <<"jpeg", "validate", "read", "load:throw">>)
        ELSE
        Once(SerializeTiers(setAllExifValues(loaded.obj, selection), selection, env.dumpFails),
              LAMBDA ser :
                LET ev1 == <<"jpeg", "validate", "read", "load">>
                IN
                IF ~ser.ok THEN Out(FALSE, file, side, ev1 \o ser.events)
                ELSE LET ins == piexifInsert(ser.segment, jpegData)
                         ev2 == ev1 \o ser.events
                     IN  IF ~ins.ok THEN Out(FALSE, file, side, ev2 \o <<"insert:throw">>)
                         ELSE IF env.writeFail
                         THEN Out(FALSE, file, side, ev2 \o <<"insert", "write:throw">>)
                         ELSE Out(TRUE, BufferFromBinary(ins.file), side,
                                  ev2 \o <<"insert", "write">>))))

JpegApplyValidated(file, side, selection, env) ==
    IF env.readFail THEN Out(FALSE, file, side, <<"jpeg", "validate", "read:throw">>)
    ELSE
      Once(toStringBinary(file), LAMBDA jpegData :
      Once(piexifLoad(jpegData), LAMBDA loaded :
        LET start == IF loaded.ok THEN loaded.obj ELSE createCleanExifObject
            ev1 == <<"jpeg", "validate", "read", IF loaded.ok THEN "load" ELSE "load:throw">>
        IN  Once(SerializeTiers(setAllExifValues(start, selection), selection, env.dumpFails),
              LAMBDA ser :
                IF ~ser.ok THEN Out(FALSE, file, side, ev1 \o ser.events)
                ELSE LET ins == piexifInsert(ser.segment, jpegData)
                         ev2 == ev1 \o ser.events
                     IN  IF ~ins.ok THEN Out(FALSE, file, side, ev2 \o <<"insert:throw">>)
                         ELSE IF env.writeFail
                         THEN Out(FALSE, file, side, ev2 \o <<"insert", "write:throw">>)
                         ELSE Out(TRUE, BufferFromBinary(ins.file), side,
                                  ev2 \o <<"insert", "write">>))))

\* a slip that reads the file before it validates the selection
JpegApplyReadFirst(file, side, selection, env) ==
    IF env.readFail THEN Out(FALSE, file, side, <<"jpeg", "read:throw">>)
    ELSE IF validateSelection(selection) # ""
    THEN Out(FALSE, file, side, <<"jpeg", "read", "validate:throw">>)
    ELSE JpegApplyValidated(file, side, selection, env)

\* JpegProcessor.applyExifToFile
JpegApply(file, side, selection, env) ==
    IF validateSelection(selection) # ""
    THEN Out(FALSE, file, side, <<"jpeg", "validate:throw">>)
    ELSE JpegApplyValidated(file, side, selection, env)

\* JpegProcessor.eraseExifFromFile
JpegErase(file, side, env) ==
    IF env.readFail THEN Out(FALSE, file, side, <<"jpeg", "read:throw">>)
    ELSE LET rem == piexifRemove(toStringBinary(file))
         IN  IF ~rem.ok THEN Out(FALSE, file, side, <<"jpeg", "read", "remove:throw">>)
             ELSE IF env.writeFail
             THEN Out(FALSE, file, side, <<"jpeg", "read", "remove", "write:throw">>)
             ELSE Out(TRUE, BufferFromBinary(rem.file), side,
                      <<"jpeg", "read", "remove", "write">>)

(***************************************************************************)
(* sidecarProcessor.js                                                     *)
(***************************************************************************)
NoSidecar == [t |-> "absent"]
Xmp(elements) == [t |-> "xmp", elements |-> elements]

\* the elements of the rendered document, by name, each with its text
generateXmpSidecar(selection) ==
    LET fixed == [ Make            |-> TemplateString(selection.setup.camera.maker),
                   Model           |-> TemplateString(selection.setup.camera.model),
                   LensMake        |-> TemplateString(selection.setup.lens.maker),
                   LensModel       |-> getLensModelWithAperture(selection.setup.lens).s,
                   ISOSpeedRatings |-> TemplateString(selection.film.iso),
                   creator         |-> TemplateString(selection.photographer) ]
    IN  IF Truthy(selection.shotISO)
        THEN Xmp(fixed @@ [PhotographicSensitivity |-> TemplateString(selection.shotISO)])
        ELSE Xmp(fixed)

\* createSidecarFile: what it returns and the sidecar at path + '.xmp' afterwards
createSidecarFile(side, selection, env) ==
    IF env.sidecarFail THEN [ok |-> FALSE, side |-> side, events |-> <<"sidecar:throw">>]
    ELSE [ok |-> TRUE, side |-> generateXmpSidecar(selection), events |-> <<"sidecar">>]

\* removeSidecarFile: threw (unlink failed), or what it returned and the sidecar afterwards
\* a slip that reports the sidecar removed without unlinking it
removeSidecarFileNoUnlink(side, env) ==
    IF side = NoSidecar THEN [threw |-> FALSE, removed |-> FALSE, side |-> side]
    ELSE [threw |-> FALSE, removed |-> TRUE, side |-> side]

removeSidecarFile(side, env) ==
    IF side = NoSidecar THEN [threw |-> FALSE, removed |-> FALSE, side |-> side]
    ELSE IF env.unlinkFail THEN [threw |-> TRUE, removed |-> FALSE, side |-> side]
    ELSE [threw |-> FALSE, removed |-> TRUE, side |-> NoSidecar]

(***************************************************************************)
(* tiffProcessor.js                                                        *)
(***************************************************************************)
\* tiff[key] of a decoded IFD: undefined when the key is absent
Prop(ifd, key) == IF key \in DOMAIN ifd THEN ifd[key] ELSE Undefined

OrElse(a, b) == Once(a, LAMBDA x : IF Truthy(x) THEN x ELSE b)

setTiffExifValues(tiff, selection) ==
    LET t1 == Once(tiff, LAMBDA t :
                  Put(t, "t256", OrElse(Prop(t, "t256"), Prop(t, "width"))))
        t2 == Once(t1, LAMBDA t :
                  Put(t, "t257", OrElse(Prop(t, "t257"), Prop(t, "height"))))
        t3 == Put(t2, "t271", selection.setup.camera.maker)
        t4 == Put(t3, "t272", selection.setup.camera.model)
        t5 == Put(t4, "t42035", selection.setup.lens.maker)
        t6 == Put(t5, "t42036", getLensModelWithAperture(selection.setup.lens))
        t7 == Put(t6, "t34855", Arr(<<selection.film.iso>>))
        t8 == IF Truthy(selection.shotISO) THEN Put(t7, "t34864", selection.shotISO) ELSE t7
    IN  Put(t8, "t315", selection.photographer)

essentialTags == <<"t256", "t257", "t258", "t259", "t262", "t273", "t277", "t278", "t279">>

\* a slip that keeps the Make tag among the essential ones
cleanTiffKeepsMake(tiff) ==
    Once(tiff, LAMBDA t :
        LET kept == ({essentialTags[i] : i \in 1..Len(essentialTags)} \cup {"t271"}) \cap
                        {k \in DOMAIN t : t[k] # Undefined}
            props == {k \in {"width", "height", "data"} \cap DOMAIN t : Truthy(t[k])}
        IN  [k \in kept \cup props |-> t[k]])

cleanTiff(tiff) ==
    Once(tiff, LAMBDA t :
        LET kept == {essentialTags[i] : i \in 1..Len(essentialTags)} \cap
                        {k \in DOMAIN t : t[k] # Undefined}
            props == {k \in {"width", "height", "data"} \cap DOMAIN t : Truthy(t[k])}
        IN  [k \in kept \cup props |-> t[k]])

\* UTIF.decode: the first IFD of a TIFF container; on other bytes it throws or finds no IFD
utifDecode(file, env) ==
    IF file.fmt = "tiff" THEN [result |-> "ok", tiff |-> file.ifd]
    ELSE [result |-> env.decode]

\* applyExifToFile after validateSelection returned
TiffApplyValidated(file, side, selection, env) ==
    IF env.readFail THEN Out(FALSE, file, side, <<"tiff", "validate", "read:throw">>)
    ELSE
      LET dec == utifDecode(file, env)
          ev1 == <<"tiff", "validate", "read">>
      IN  IF dec.result = "throw" THEN
              LET sc == createSidecarFile(side, selection, env)
              IN  Out(sc.ok, file, sc.side, ev1 \o <<"decode:throw">> \o sc.events)
          ELSE IF dec.result = "empty" THEN
              Out(FALSE, file, side, ev1 \o <<"decode:empty">>)
          ELSE IF env.encodeFail THEN
              LET sc == createSidecarFile(side, selection, env)
              IN  Out(sc.ok, file, sc.side, ev1 \o <<"decode", "encode:throw">> \o sc.events)
          ELSE IF env.writeFail THEN
              LET sc == createSidecarFile(side, selection, env)
              IN  Out(sc.ok, file, sc.side,
                      ev1 \o <<"decode", "encode", "write:throw">> \o sc.events)
          ELSE Out(TRUE, TiffFile(setTiffExifValues(dec.tiff, selection), file.scan), side,
                   ev1 \o <<"decode", "encode", "write">>)

\* TiffProcessor.applyExifToFile
TiffApply(file, side, selection, env) ==
    IF validateSelection(selection) # ""
    THEN Out(FALSE, file, side, <<"tiff", "validate:throw">>)
    ELSE TiffApplyValidated(file, side, selection, env)

\* TiffProcessor.eraseExifFromFile
TiffErase(file, side, env) ==
    IF env.readFail THEN Out(FALSE, file, side, <<"tiff", "read:throw">>)
    ELSE
      LET dec == utifDecode(file, env)
          ev1 == <<"tiff", "read">>
      IN  IF dec.result = "throw" THEN Out(FALSE, file, side, ev1 \o <<"decode:throw">>)
          ELSE IF dec.result = "empty" THEN Out(FALSE, file, side, ev1 \o <<"decode:empty">>)
          ELSE IF env.encodeFail
          THEN Out(FALSE, file, side, ev1 \o <<"decode", "encode:throw">>)
          ELSE IF env.writeFail
          THEN Out(FALSE, file, side, ev1 \o <<"decode", "encode", "write:throw">>)
          ELSE Out(TRUE, TiffFile(cleanTiff(dec.tiff), file.scan), side,
                   ev1 \o <<"decode", "encode", "write">>)

(***************************************************************************)
(* rawProcessor.js                                                         *)
(***************************************************************************)
Prefix(tag, out) == [out EXCEPT !.events = <<tag>> \o @]

\* a slip that writes a sidecar for every raw format, DNG included
RawApplyValidatedSidecarOnly(filePath, file, side, selection, env) ==
    LET sc == createSidecarFile(side, selection, env)
    IN  Out(sc.ok, file, sc.side, <<"raw", "validate">> \o sc.events)

\* applyExifToFile after validateSelection returned
RawApplyValidated(filePath, file, side, selection, env) ==
    IF isDngFile(filePath)
    THEN Prefix("raw", TiffApply(file, side, selection, env))
    ELSE LET sc == createSidecarFile(side, selection, env)
         IN  Out(sc.ok, file, sc.side, <<"raw", "validate">> \o sc.events)

\* RawProcessor.applyExifToFile
RawApply(filePath, file, side, selection, env) ==
    IF validateSelection(selection) # ""
    THEN Out(FALSE, file, side, <<"raw", "validate:throw">>)
    ELSE RawApplyValidated(filePath, file, side, selection, env)

\* a slip that reports failure when there is no sidecar to remove
RawEraseNeedsSidecar(filePath, file, side, env) ==
    IF isDngFile(filePath)
    THEN Prefix("raw", TiffErase(file, side, env))
    ELSE LET rm == removeSidecarFile(side, env)
         IN  IF rm.threw THEN Out(FALSE, file, side, <<"raw", "unlink:throw">>)
             ELSE IF rm.removed THEN Out(TRUE, file, rm.side, <<"raw", "unlink">>)
             ELSE Out(FALSE, file, side, <<"raw", "nosidecar">>)

\* RawProcessor.eraseExifFromFile
RawErase(filePath, file, side, env) ==
    IF isDngFile(filePath)
    THEN Prefix("raw", TiffErase(file, side, env))
    ELSE LET rm == removeSidecarFile(side, env)
         IN  IF rm.threw THEN Out(FALSE, file, side, <<"raw", "unlink:throw">>)
             ELSE IF rm.removed THEN Out(TRUE, file, rm.side, <<"raw", "unlink">>)
             ELSE Out(TRUE, file, side, <<"raw", "nosidecar">>)

(***************************************************************************)
(* exifManager.js                                                          *)
(***************************************************************************)
\* ExifManager.applyExifToFile
applyExifToFile(filePath, file, side, selection, env) ==
    LET fileType == getFileType(filePath)
    IN  CASE fileType = "jpeg" -> JpegApply(file, side, selection, env)
          [] fileType = "tiff" -> TiffApply(file, side, selection, env)
          [] fileType \in {"dng", "raw"} -> RawApply(filePath, file, side, selection, env)
          [] OTHER -> Out(FALSE, file, side, <<"unsupported">>)

\* ExifManager.eraseExifFromFile
eraseExifFromFile(filePath, file, side, env) ==
    LET fileType == getFileType(filePath)
    IN  CASE fileType = "jpeg" -> JpegErase(file, side, env)
          [] fileType = "tiff" -> TiffErase(file, side, env)
          [] fileType \in {"dng", "raw"} -> RawErase(filePath, file, side, env)
          [] OTHER -> Out(FALSE, file, side, <<"unsupported">>)

(***************************************************************************)
(* What the environment may do to one processor call: a read, write or     *)
(* unlink that fails, library calls that throw.  Only the faults a call    *)
(* can meet are varied; decode is what UTIF.decode does on bytes that are  *)
(* no TIFF.                                                                *)
(***************************************************************************)
NoFault ==
    [readFail |-> FALSE, dumpFails |-> 0, writeFail |-> FALSE, decode |-> "throw",
     encodeFail |-> FALSE, sidecarFail |-> FALSE, unlinkFail |-> FALSE]

\* JPEG: the read fails, or it succeeds and 0..3 dumps throw and the write fails or not
JpegEnvs ==
    { [NoFault EXCEPT !.readFail = TRUE] }
    \cup { [NoFault EXCEPT !.dumpFails = d, !.writeFail = w] : d \in 0..3, w \in BOOLEAN }

\* TIFF / DNG: the read fails; or bytes that are no TIFF make decode throw or find nothing;
\* or encode throws; or the write fails; the sidecar write of a fallback fails or not
TiffEnvs ==
    { [NoFault EXCEPT !.readFail = TRUE], [NoFault EXCEPT !.decode = "empty"] }
    \cup { [NoFault EXCEPT !.encodeFail = e, !.writeFail = w, !.sidecarFail = s] :
               e \in BOOLEAN, w \in BOOLEAN, s \in BOOLEAN }

SidecarEnvs ==
    { [NoFault EXCEPT !.sidecarFail = s, !.unlinkFail = u] : s \in BOOLEAN, u \in BOOLEAN }

EnvsFor(filePath) ==
    LET fileType == getFileType(filePath)
    IN  CASE fileType = "jpeg" -> JpegEnvs
          [] fileType \in {"tiff", "dng"} -> TiffEnvs
          [] fileType = "raw" -> SidecarEnvs
          [] OTHER -> {NoFault}

(***************************************************************************)
(* Selections and files the processors are exercised on                    *)
(***************************************************************************)
Camera(maker, model) == Obj([maker |-> maker, model |-> model])
Lens(maker, model, focalLength, aperture) ==
    Obj([maker |-> maker, model |-> model, focalLength |-> focalLength, aperture |-> aperture])
Film(iso) == Obj([iso |-> Num(iso)])
Setup(camera, lens) == Obj([camera |-> camera, lens |-> lens])
Selection(setup, film, shotISO, photographer) ==
    Obj([setup |-> setup, film |-> film, shotISO |-> shotISO, photographer |-> photographer])

Canon == Str(<<"C","a","n","o","n">>)
AE1 == Str(<<"A","E","-","1">>)
Jane == Str(<<"J","a","n","e">>)
LensFD == Lens(Canon, Str(<<"F","D">>), Str(<<"5","0">>), Str(<<"1",".","2">>))
LensZoom == Lens(Str(<<"S","M","C">>), Null, Str(<<"2","8","-","1","3","5">>), Str(<<"4">>))
LensMacro == Lens(Canon, Str(<<"M","a","c","r","o">>), Null, Str(<<"2",".","8">>))
LensBare == Lens(Str(<<>>), Str(<<" ">>), Null, Null)

SelFull == Selection(Setup(Camera(Canon, AE1), LensFD), Film(400), Num(800), Jane)
SelSameISO == Selection(Setup(Camera(Canon, AE1), LensZoom), Film(400), Num(400), Jane)
SelNoShot == Selection(Setup(Camera(Canon, Str(<<>>)), LensMacro), Film(200), Undefined,
                       Str(<<" ">>))
SelBare == Selection(Setup(Camera(Str(<<" ">>), AE1), LensBare), Film(100), Num(50), Undefined)
SelNoLens == Selection(Setup(Camera(Canon, AE1), Null), Film(400), Num(800), Jane)
SelNoCamera == Selection(Setup(Null, LensFD), Film(400), Num(800), Jane)
SelNoSetup == Selection(Undefined, Film(400), Num(800), Jane)
SelNoFilm == Selection(Setup(Camera(Canon, AE1), LensFD), Undefined, Num(800), Jane)

Selections ==
    { Null, Undefined, SelFull, SelSameISO, SelNoShot, SelBare,
      SelNoLens, SelNoCamera, SelNoSetup, SelNoFilm }

OldExif ==
    ExifSegment([k \in {"0th", "GPS"} |->
        IF k = "0th" THEN (ImageIFD_Make :> Str(<<"o","l","d">>)) @@ (305 :> Str(<<"s","w">>))
        ELSE (1 :> Str(<<"N">>))])

OldIfd ==
    [ t256 |-> Arr(<<64>>), t257 |-> Arr(<<48>>), t258 |-> Arr(<<8>>), t259 |-> Arr(<<1>>),
      t262 |-> Arr(<<1>>), t273 |-> Arr(<<8>>), t277 |-> Arr(<<1>>), t278 |-> Arr(<<48>>),
      t279 |-> Arr(<<3072>>), t271 |-> Str(<<"o","l","d">>), t305 |-> Str(<<"s","w">>) ]

BareIfd == [ t273 |-> Arr(<<8>>), t279 |-> Arr(<<3072>>), t306 |-> Str(<<"d">>) ]

FileContents ==
    { JpegFile(NoExif, JpegScan), JpegFile(CorruptExif, JpegScan), JpegFile(OldExif, JpegScan),
      TiffFile(OldIfd, TiffStrips), TiffFile(BareIfd, TiffStrips), OtherFile(OtherBytes) }

ForeignXmp == Xmp([Make |-> <<"o","l","d">>])

FilePaths ==
    { <<"a",".","j","p","g">>, <<"d","/","B",".","J","P","E","G">>, <<"c",".","t","i","f","f">>,
      <<"d",".","T","i","f">>, <<"e",".","d","n","g">>, <<"f",".","c","r","2">>,
      <<"g",".","N","E","F">>, <<"h",".","t","x","t">>, <<"i">> }

(***************************************************************************)
(* One file, a sequence of apply / erase calls of the ExifManager on it.   *)
(***************************************************************************)
MaxOps == 2

FileInit ==
    /\ fpath \in FilePaths
    /\ fdata \in FileContents
    /\ fside \in {NoSidecar, ForeignXmp}
    /\ lastOp = NotRun
    /\ nOps = 0
    /\ TypesIdle /\ TagsIdle /\ BatchIdle /\ CliIdle /\ StoreIdle

\* what lastOp keeps of the call before it: the operation, its result, and the Selection
\* of an apply that succeeded
Earlier(op) ==
    IF op.run
    THEN [run |-> TRUE, op |-> op.op, success |-> op.success,
          selection |-> IF op.success THEN op.selection ELSE Null]
    ELSE NotRun

ApplyCall ==
    /\ nOps < MaxOps
    /\ \E selection \in Selections, env \in EnvsFor(fpath) :
         \E out \in {applyExifToFile(fpath, fdata, fside, selection, env)} :
             /\ fdata' = out.file
             /\ fside' = out.side
             /\ lastOp' = [ run |-> TRUE, op |-> "apply", selection |-> selection,
                            before |-> fdata, sideBefore |-> fside,
                            success |-> out.success, events |-> out.events,
                            prev |-> Earlier(lastOp) ]
    /\ nOps' = nOps + 1
    /\ UNCHANGED <<fpath, typeVars, tagVars, batchVars, cliVars, storeVars>>

EraseCall ==
    /\ nOps < MaxOps
    /\ \E env \in EnvsFor(fpath) :
         \E out \in {eraseExifFromFile(fpath, fdata, fside, env)} :
             /\ fdata' = out.file
             /\ fside' = out.side
             /\ lastOp' = [ run |-> TRUE, op |-> "erase", selection |-> Null,
                            before |-> fdata, sideBefore |-> fside,
                            success |-> out.success, events |-> out.events,
                            prev |-> Earlier(lastOp) ]
    /\ nOps' = nOps + 1
    /\ UNCHANGED <<fpath, typeVars, tagVars, batchVars, cliVars, storeVars>>

FileNext == ApplyCall \/ EraseCall

SpecFile == FileInit /\ [][FileNext]_vars

(***************************************************************************)
(* Calls of setAllExifValues on a family of lenses: focal lengths and      *)
(* apertures that are absent, empty, integers, decimals and ranges.        *)
(***************************************************************************)
MaxPopulates == 2

FocalLengths ==
    { Null, Str(<<>>), Str(<<"5","0">>), Str(<<"8","5">>), Str(<<"7",".","5">>),
      Str(<<"2","8","-","1","3","5">>) }

Apertures ==
    { Null, Str(<<>>), Str(<<"4">>), Str(<<"1",".","2">>), Str(<<"2",".","8">>),
      Str(<<"0",".","9","5">>) }

PopulateLenses ==
    { Lens(Canon, Str(<<"F","D">>), focalLength, aperture) :
          focalLength \in FocalLengths, aperture \in Apertures }

PopulateStarts ==
    { createCleanExifObject,
      [createCleanExifObject EXCEPT
          !["Exif"] = (ExifIFD_FocalLength :> Arr(<<Num(35), Num(1)>>))
                      @@ (ExifIFD_FNumber :> Arr(<<Num(20), Num(10)>>))] }

PopulateInit ==
    /\ exifObj \in PopulateStarts
    /\ setCall = [run |-> FALSE, n |-> 0]
    /\ TypesIdle /\ FileIdle /\ BatchIdle /\ CliIdle /\ StoreIdle

SetAllExifValuesCall ==
    /\ setCall.n < MaxPopulates
    /\ \E lens \in PopulateLenses :
          \E selection \in {Selection(Setup(Camera(Canon, AE1), lens), Film(400),
                                       Undefined, Jane)} :
              /\ exifObj' = setAllExifValues(exifObj, selection)
              /\ setCall' = [ run |-> TRUE, n |-> setCall.n + 1, before |-> exifObj,
                              selection |-> selection ]
    /\ UNCHANGED <<typeVars, fileVars, batchVars, cliVars, storeVars>>

PopulateNext == SetAllExifValuesCall

SpecPopulate == PopulateInit /\ [][PopulateNext]_vars

(***************************************************************************)
(* fileCollector.js                                                        *)
(*                                                                         *)
(* A folder is a root that can be read or not and a sequence of nodes;     *)
(* node i is [parent, kind, name], parent 0 being the root.  readdirSync   *)
(* of a directory lists its children in the order of their ids.  Kinds:    *)
(* "file" (a regular file), "dir" (a directory), "baddir" (a directory     *)
(* whose readdirSync throws), "broken" (an entry whose statSync throws,    *)
(* such as a dangling link).                                               *)
(***************************************************************************)
RootPath == <<"r">>

\* path.join(dirPath, entry)
join(dirPath, entry) == dirPath \o <<"/">> \o entry

\* path.relative(folderPath, fullPath), fullPath being below folderPath
relative(folderPath, fullPath) == SubSeq(fullPath, Len(folderPath) + 2, Len(fullPath))

\* path.dirname(relativePath) || '.'
dirname(p) == IF lastIndexOf(p, "/") = -1 THEN <<".">> ELSE SubSeq(p, 1, lastIndexOf(p, "/"))

Children(nodes, parent) == SelectSeq([i \in 1..Len(nodes) |-> i], LAMBDA i : nodes[i].parent = parent)

FileEntry(folderPath, fullPath) ==
    [ name |-> relative(folderPath, fullPath),
      path |-> fullPath,
      directory |-> dirname(relative(folderPath, fullPath)) ]

RECURSIVE scanEntries(_, _, _, _, _)
\* the loop of scanDirectory over the entries ids of dirPath, inside its try block
scanEntries(nodes, ids, dirPath, folderPath, recursive) ==
    IF ids = <<>> THEN <<>>
    ELSE LET node == nodes[Head(ids)]
             fullPath == join(dirPath, node.name)
         IN  IF node.kind = "broken" THEN <<>>
             ELSE IF node.kind = "file" /\ isSupportedFile(node.name)
             THEN <<FileEntry(folderPath, fullPath)>>
                      \o scanEntries(nodes, Tail(ids), dirPath, folderPath, recursive)
             ELSE IF node.kind \in {"dir", "baddir"} /\ recursive
             THEN (IF node.kind = "baddir" THEN <<>>
                   ELSE scanEntries(nodes, Children(nodes, Head(ids)), fullPath,
                                    folderPath, recursive))
                      \o scanEntries(nodes, Tail(ids), dirPath, folderPath, recursive)
             ELSE scanEntries(nodes, Tail(ids), dirPath, folderPath, recursive)

collectFilesRecursively(fold, folderPath, recursive) ==
    IF ~fold.readable THEN <<>>
    ELSE scanEntries(fold.nodes, Children(fold.nodes, 0), folderPath, folderPath, recursive)

NoFilesMessage(recursive) ==
    IF recursive THEN "No supported image files (JPEG, TIFF, DNG, RAW) found in the specified folder (including subdirectories)."
    ELSE "No supported image files (JPEG, TIFF, DNG, RAW) found in the specified folder."

\* the full path of node i
RECURSIVE NodePath(_, _)
NodePath(nodes, i) ==
    IF nodes[i].parent = 0 THEN join(RootPath, nodes[i].name)
    ELSE join(NodePath(nodes, nodes[i].parent), nodes[i].name)

(***************************************************************************)
(* Folders a batch is run on                                               *)
(***************************************************************************)
MaxNodes == 3

Suffixes == { <<".","j","p","g">>, <<".","c","r","2">>, <<".","t","x","t">> }

NodeName(i, kind, suffix) ==
    IF kind = "file" THEN <<Digits[i + 1]>> \o suffix ELSE <<"d", Digits[i + 1]>>

\* what a file of the tree holds before the batch, by its name
InitialContent(name) ==
    IF isJpegFile(name) THEN JpegFile(NoExif, JpegScan) ELSE OtherFile(OtherBytes)

NodeChoices(i) ==
    { [parent |-> p, kind |-> k, name |-> NodeName(i, k, s)] :
        p \in 0..(i - 1), k \in {"file"}, s \in Suffixes }
    \cup { [parent |-> p, kind |-> k, name |-> NodeName(i, k, <<>>)] :
        p \in 0..(i - 1), k \in {"dir", "baddir", "broken"} }

\* every node hangs below the root or below a readable directory
WellFormed(nodes) ==
    \A i \in 1..Len(nodes) : nodes[i].parent = 0 \/ nodes[nodes[i].parent].kind = "dir"

RECURSIVE NodeSeqs(_)
NodeSeqs(n) ==
    IF n = 0 THEN { <<>> }
    ELSE LET shorter == NodeSeqs(n - 1)
         IN  shorter \cup
             { Append(ns, c) : ns \in {x \in shorter : Len(x) = n - 1}, c \in NodeChoices(n) }

Folders ==
    { [readable |-> FALSE, nodes |-> <<>>] }
    \cup { [readable |-> TRUE, nodes |-> ns] : ns \in {x \in NodeSeqs(MaxNodes) : WellFormed(x)} }

FileNodes(nodes) == {i \in 1..Len(nodes) : nodes[i].kind = "file"}

BatchArgs ==
    { [selection |-> s, action |-> "apply", recursive |-> r] :
          s \in {SelFull, SelNoFilm}, r \in BOOLEAN }
    \cup { [selection |-> Null, action |-> a, recursive |-> r] :
          a \in {"erase", "rename"}, r \in BOOLEAN }

BatchInit ==
    /\ folder \in Folders
    /\ args \in BatchArgs
    /\ disk = [p \in {NodePath(folder.nodes, i) : i \in FileNodes(folder.nodes)} |->
                  InitialContent(p)]
    /\ sidecars = [p \in {NodePath(folder.nodes, i) : i \in FileNodes(folder.nodes)} |->
                      NoSidecar]
    /\ pc = "idle"
    /\ supportedFiles = <<>>
    /\ results = NotRun
    /\ ret = NotRun
    /\ calls = <<>>
    /\ TypesIdle /\ TagsIdle /\ FileIdle /\ CliIdle /\ StoreIdle

\* processFolder up to its first await: the scan, the early return, the results object
ProcessFolderCall ==
    /\ pc = "idle"
    /\ \E found \in {collectFilesRecursively(folder, RootPath, args.recursive)} :
         /\ supportedFiles' = found
         /\ IF Len(found) = 0
            THEN /\ ret' = [success |-> FALSE, message |-> NoFilesMessage(args.recursive)]
                 /\ pc' = "returned"
                 /\ UNCHANGED results
            ELSE /\ results' = [total |-> Len(found), processed |-> 0, failed |-> 0,
                                files |-> <<>>]
                 /\ pc' = "loop"
                 /\ UNCHANGED ret
    /\ UNCHANGED <<folder, args, disk, sidecars, calls, typeVars, tagVars, fileVars, cliVars, storeVars>>

\* what one iteration hands to the ExifManager and gets back; success stays undefined
\* for an action that is neither 'apply' nor 'erase'
AsValue(out) == [out EXCEPT !.success = Bool(@)]

ProcessOne(f, env) ==
    IF args.action = "apply"
    THEN AsValue(applyExifToFile(f.path, disk[f.path], sidecars[f.path], args.selection, env))
    ELSE IF args.action = "erase"
    THEN AsValue(eraseExifFromFile(f.path, disk[f.path], sidecars[f.path], env))
    ELSE Out(Undefined, disk[f.path], sidecars[f.path], <<>>)

\* a slip that counts every result that is not false as processed
recordResultNotFalse(res, f, success) ==
    [ total |-> res.total,
      processed |-> res.processed + (IF success # Bool(FALSE) THEN 1 ELSE 0),
      failed |-> res.failed + (IF success # Bool(FALSE) THEN 0 ELSE 1),
      files |-> Append(res.files,
                       [ name |-> f.name, type |-> getFileType(f.name),
                         directory |-> f.directory, success |-> success ]) ]

\* the end of one iteration: the result pushed on results.files, then the counters
\* a slip that puts the newest entry first (unshift for push)
recordResultFirst(res, f, success) ==
    [ total |-> res.total,
      processed |-> res.processed + (IF Truthy(success) THEN 1 ELSE 0),
      failed |-> res.failed + (IF Truthy(success) THEN 0 ELSE 1),
      files |-> <<[ name |-> f.name, type |-> getFileType(f.name),
                    directory |-> f.directory, success |-> success ]>> \o res.files ]

recordResult(res, f, success) ==
    [ total |-> res.total,
      processed |-> res.processed + (IF Truthy(success) THEN 1 ELSE 0),
      failed |-> res.failed + (IF Truthy(success) THEN 0 ELSE 1),
      files |-> Append(res.files,
                       [ name |-> f.name, type |-> getFileType(f.name),
                         directory |-> f.directory, success |-> success ]) ]

\* a slip that leaves the loop at the first file that fails
loopEndsAtFailure(res, success) ==
    Len(res.files) = Len(supportedFiles) \/ Falsy(success)

\* for (const file of supportedFiles) is over once every file has its result
loopEnds(res, success) == Len(res.files) = Len(supportedFiles)

\* one iteration of the loop; the last one returns
ProcessFile ==
    /\ pc = "loop"
    /\ \E f \in {supportedFiles[Len(results.files) + 1]} :
       \E env \in EnvsFor(f.path) :
       \E out \in {ProcessOne(f, env)} :
       \E res \in {recordResult(results, f, out.success)} :
         /\ disk' = [disk EXCEPT ![f.path] = out.file]
         /\ sidecars' = [sidecars EXCEPT ![f.path] = out.side]
         /\ calls' = IF args.action \in {"apply", "erase"}
                     THEN Append(calls, [path |-> f.path, op |-> args.action,
                                         codec |-> out.events[1]])
                     ELSE calls
         /\ results' = res
         /\ IF loopEnds(res, out.success)
            THEN pc' = "returned" /\ ret' = [success |-> TRUE, results |-> res]
            ELSE UNCHANGED <<pc, ret>>
    /\ UNCHANGED <<folder, args, supportedFiles, typeVars, tagVars, fileVars, cliVars, storeVars>>

Init == BatchInit

Next == ProcessFolderCall \/ ProcessFile

Spec == Init /\ [][Next]_vars

\* the loop is sequential code: an iteration that can run does run
FairSpec == Spec /\ WF_vars(ProcessFile)

(***************************************************************************)
(* dataManager.js                                                          *)
(*                                                                         *)
(* The data of the DataManager: cameras, lenses and setups, each an array  *)
(* of records in insertion order.  An id stands for the UUID the           *)
(* constructor of a model object draws: the n-th id issued is n, so that   *)
(* no id is ever issued twice.  Messages are sequences of words.           *)
(***************************************************************************)
MaxIds == 4

CannotDeleteCamera ==
    <<"Cannot", "delete", "camera:", "it", "is", "used", "in", "existing", "setups">>
CannotDeleteLens ==
    <<"Cannot", "delete", "lens:", "it", "is", "used", "in", "existing", "setups">>
CameraDeleted == <<"Camera", "deleted", "successfully">>
LensDeleted == <<"Lens", "deleted", "successfully">>
SetupDeleted == <<"Setup", "deleted", "successfully">>

\* this.data of a DataManager whose data file does not exist
loadData == [cameras |-> <<>>, lenses |-> <<>>, setups |-> <<>>, issued |-> 0]

\* fs.writeFileSync of the data file throws or not
saveData(saveFails) == ~saveFails

\* Array.prototype.findIndex on the id: 0-based, -1 when no element has it
findIndex(coll, id) ==
    IF \E i \in 1..Len(coll) : coll[i].id = id
    THEN (CHOOSE i \in 1..Len(coll) :
              coll[i].id = id /\ \A j \in 1..(i - 1) : coll[j].id # id) - 1
    ELSE -1

\* Array.prototype.filter keeping the elements with another id
WithoutId(coll, id) == SelectSeq(coll, LAMBDA c : c.id # id)

getCameraById(data, id) ==
    IF findIndex(data.cameras, id) = -1 THEN Null
    ELSE Obj(data.cameras[findIndex(data.cameras, id) + 1])

getLensById(data, id) ==
    IF findIndex(data.lenses, id) = -1 THEN Null
    ELSE Obj(data.lenses[findIndex(data.lenses, id) + 1])

\* each operation gives the data after it and what it returned
createCamera(data, maker, saveFails) ==
    LET camera == [id |-> data.issued + 1, maker |-> maker]
    IN  [ data |-> [data EXCEPT !.cameras = Append(@, camera), !.issued = @ + 1],
          ret |-> IF saveData(saveFails) THEN Obj(camera) ELSE Null ]

updateCamera(data, id, maker, saveFails) ==
    LET index == findIndex(data.cameras, id)
    IN  IF index = -1 THEN [data |-> data, ret |-> Bool(FALSE)]
        ELSE [ data |-> [data EXCEPT !.cameras[index + 1].maker = maker],
               ret |-> Bool(saveData(saveFails)) ]

deleteCamera(data, id, saveFails) ==
    LET setupsUsingCamera == SelectSeq(data.setups, LAMBDA s : s.cameraId = id)
    IN  IF Len(setupsUsingCamera) > 0
        THEN [data |-> data, ret |-> [success |-> FALSE, message |-> CannotDeleteCamera]]
        ELSE [ data |-> [data EXCEPT !.cameras = WithoutId(@, id)],
               ret |-> [success |-> saveData(saveFails), message |-> CameraDeleted] ]

createLens(data, maker, saveFails) ==
    LET lens == [id |-> data.issued + 1, maker |-> maker]
    IN  [ data |-> [data EXCEPT !.lenses = Append(@, lens), !.issued = @ + 1],
          ret |-> IF saveData(saveFails) THEN Obj(lens) ELSE Null ]

updateLens(data, id, maker, saveFails) ==
    LET index == findIndex(data.lenses, id)
    IN  IF index = -1 THEN [data |-> data, ret |-> Bool(FALSE)]
        ELSE [ data |-> [data EXCEPT !.lenses[index + 1].maker = maker],
               ret |-> Bool(saveData(saveFails)) ]

\* a slip that deletes a lens without looking at the setups
deleteLensUnchecked(data, id, saveFails) ==
    [ data |-> [data EXCEPT !.lenses = WithoutId(@, id)],
      ret |-> [success |-> saveData(saveFails), message |-> LensDeleted] ]

deleteLens(data, id, saveFails) ==
    LET setupsUsingLens == SelectSeq(data.setups, LAMBDA s : s.lensId = id)
    IN  IF Len(setupsUsingLens) > 0
        THEN [data |-> data, ret |-> [success |-> FALSE, message |-> CannotDeleteLens]]
        ELSE [ data |-> [data EXCEPT !.lenses = WithoutId(@, id)],
               ret |-> [success |-> saveData(saveFails), message |-> LensDeleted] ]

createSetup(data, name, cameraId, lensId, saveFails) ==
    IF Falsy(getCameraById(data, cameraId)) \/ Falsy(getLensById(data, lensId))
    THEN [data |-> data, ret |-> Null]
    ELSE LET setup == [ id |-> data.issued + 1, name |-> name,
                        cameraId |-> cameraId, lensId |-> lensId ]
         IN  [ data |-> [data EXCEPT !.setups = Append(@, setup), !.issued = @ + 1],
               ret |-> IF saveData(saveFails) THEN Obj(setup) ELSE Null ]

updateSetup(data, id, name, cameraId, lensId, saveFails) ==
    LET index == findIndex(data.setups, id)
    IN  IF index = -1 THEN [data |-> data, ret |-> Bool(FALSE)]
        ELSE IF Falsy(getCameraById(data, cameraId)) \/ Falsy(getLensById(data, lensId))
        THEN [data |-> data, ret |-> Bool(FALSE)]
        ELSE [ data |-> [data EXCEPT !.setups[index + 1] =
                            [@ EXCEPT !.name = name, !.cameraId = cameraId,
                                      !.lensId = lensId]],
               ret |-> Bool(saveData(saveFails)) ]

deleteSetup(data, id, saveFails) ==
    [ data |-> [data EXCEPT !.setups = WithoutId(@, id)],
      ret |-> [success |-> saveData(saveFails), message |-> SetupDeleted] ]

(***************************************************************************)
(* A DataManager on a data file that does not exist yet, and a sequence of *)
(* camera, lens and setup operations on it.  Ids handed to an operation    *)
(* are ids of any collection, ids of deleted items and ids never issued.   *)
(***************************************************************************)
IdArgs == 1..MaxIds
Makers == {"Canon", "Nikon"}
SetupNames == {"Portrait"}

StoreInit ==
    /\ store = loadData
    /\ storeCall = NotRun
    /\ TypesIdle /\ TagsIdle /\ FileIdle /\ BatchIdle /\ CliIdle

\* the call is recorded with its arguments, the data before it and its result
StoreStep(op, a, out) ==
    /\ store' = out.data
    /\ storeCall' = [run |-> TRUE, op |-> op, args |-> a, before |-> store, ret |-> out.ret]
    /\ UNCHANGED <<typeVars, tagVars, fileVars, batchVars, cliVars>>

CreateCameraCall ==
    /\ store.issued < MaxIds
    /\ \E saveFails \in BOOLEAN :
           StoreStep("createCamera", <<>>, createCamera(store, "Canon", saveFails))

UpdateCameraCall ==
    \E id \in IdArgs, saveFails \in BOOLEAN :
        StoreStep("updateCamera", <<id>>, updateCamera(store, id, "Nikon", saveFails))

DeleteCameraCall ==
    \E id \in IdArgs, saveFails \in BOOLEAN :
        StoreStep("deleteCamera", <<id>>, deleteCamera(store, id, saveFails))

CreateLensCall ==
    /\ store.issued < MaxIds
    /\ \E saveFails \in BOOLEAN :
           StoreStep("createLens", <<>>, createLens(store, "Canon", saveFails))

UpdateLensCall ==
    \E id \in IdArgs, saveFails \in BOOLEAN :
        StoreStep("updateLens", <<id>>, updateLens(store, id, "Nikon", saveFails))

DeleteLensCall ==
    \E id \in IdArgs, saveFails \in BOOLEAN :
        StoreStep("deleteLens", <<id>>, deleteLens(store, id, saveFails))

CreateSetupCall ==
    /\ store.issued < MaxIds
    /\ \E cameraId \in IdArgs, lensId \in IdArgs, saveFails \in BOOLEAN :
           StoreStep("createSetup", <<cameraId, lensId>>,
                     createSetup(store, "Portrait", cameraId, lensId, saveFails))

UpdateSetupCall ==
    \E id \in IdArgs, cameraId \in IdArgs, lensId \in IdArgs, saveFails \in BOOLEAN :
        StoreStep("updateSetup", <<id, cameraId, lensId>>,
                  updateSetup(store, id, "Portrait", cameraId, lensId, saveFails))

DeleteSetupCall ==
    \E id \in IdArgs, saveFails \in BOOLEAN :
        StoreStep("deleteSetup", <<id>>, deleteSetup(store, id, saveFails))

StoreNext ==
    \/ CreateCameraCall \/ UpdateCameraCall \/ DeleteCameraCall
    \/ CreateLensCall \/ UpdateLensCall \/ DeleteLensCall
    \/ CreateSetupCall \/ UpdateSetupCall \/ DeleteSetupCall

SpecStore == StoreInit /\ [][StoreNext]_vars

(***************************************************************************)
(* promptUtils.js: promptWithCancel, wrapWithCancelHandler                 *)
(*                                                                         *)
(* What the user does at a prompt: types a text and confirms it, presses   *)
(* Ctrl+C (inquirer rejects with ExitPromptError), or the prompt fails     *)
(* with another error.  A call returns a value or throws.                  *)
(***************************************************************************)
Typed(text) == [kind |-> "typed", text |-> text]
CtrlC == [kind |-> "ctrlc"]
PromptFailure == [kind |-> "error"]

Returned(value) == [threw |-> "none", value |-> value, absorbed |-> FALSE]
Threw(error) == [threw |-> error, value |-> Undefined, absorbed |-> FALSE]

EscapeKeywords ==
    { <<"e","s","c">>, <<"e","s","c","a","p","e">>, <<"b","a","c","k">>,
      <<"c","a","n","c","e","l">> }

\* promptWithCancel with one input question: the validate wrapper throws CancelledError
\* on an escape keyword, Ctrl+C is turned into CancelledError, other errors are rethrown
promptWithCancel(input) ==
    IF input.kind = "typed"
    THEN IF Len(input.text) > 0 /\ toLowerCase(trim(input.text)) \in EscapeKeywords
         THEN Threw("CancelledError")
         ELSE Returned(Str(input.text))
    ELSE IF input.kind = "ctrlc" THEN Threw("CancelledError")
    ELSE Threw("Error")

\* wrapWithCancelHandler: the wrapped function's CancelledError becomes undefined
wrapWithCancelHandler(result) ==
    IF result.threw = "CancelledError"
    THEN [threw |-> "none", value |-> Undefined, absorbed |-> TRUE]
    ELSE result

(***************************************************************************)
(* cli.js                                                                  *)
(***************************************************************************)
RECURSIVE unescapeSpaces(_)
\* String.prototype.replace(/\\ /g, ' ')
unescapeSpaces(s) ==
    Once(s, LAMBDA str :
        IF Len(str) < 2 THEN str
        ELSE IF str[1] = "\\" /\ str[2] = " "
        THEN <<" ">> \o unescapeSpaces(SubSeq(str, 3, Len(str)))
        ELSE <<str[1]>> \o unescapeSpaces(Tail(str)))

\* CLI.cleanFolderPath
cleanFolderPath(inputPath) ==
    Once(trim(inputPath), LAMBDA cleanPath :
        LET quoted(q) == Len(cleanPath) > 0 /\ cleanPath[1] = q /\ cleanPath[Len(cleanPath)] = q
        IN  unescapeSpaces(
                IF quoted("\"") \/ quoted("'")
                THEN trim(SubSeq(cleanPath, 2, Len(cleanPath) - 1))
                ELSE cleanPath))

\* CLI.promptFolderPath
promptFolderPath(input) ==
    wrapWithCancelHandler(
        Once(promptWithCancel(input), LAMBDA answers :
            IF answers.threw = "none" THEN Returned(Str(cleanFolderPath(answers.value.s)))
            ELSE answers))

\* CLI.selectSetupAndFilm: null when the store has no setup, film or photographer; else
\* the Selection built from what the user chose, unless a prompt was cancelled or failed
selectSetupAndFilm(input) ==
    wrapWithCancelHandler(
        IF input.kind = "empty" THEN Returned(Null)
        ELSE Once(promptWithCancel(input), LAMBDA answers :
                 IF answers.threw = "none" THEN Returned(SelSameISO) ELSE answers))

\* inquirer.prompt with one list or confirm question, not wrapped: the value of the
\* answer, the default when the user just presses enter, or the rejection of Ctrl+C
inquirerPrompt(answer, value, default) ==
    IF answer = "ctrlc" THEN Threw("ExitPromptError")
    ELSE IF answer = "enter" THEN Returned(default)
    ELSE Returned(value)

\* CLI.confirmEraseExif (default: false) and CLI.promptRecursiveProcessing (default: true)
confirmEraseExif(answer) == inquirerPrompt(answer, Bool(answer = "yes"), Bool(FALSE))

promptRecursiveProcessing(answer) == inquirerPrompt(answer, Bool(answer = "yes"), Bool(TRUE))

\* CLI.promptMainMenu: a list whose first choice is 'apply'
promptMainMenu(answer) == inquirerPrompt(answer, answer, "apply")

(***************************************************************************)
(* index.js: runInteractive                                                *)
(*                                                                         *)
(* cli.pc is the await the loop is at; folderPath, recursive, confirmed and *)
(* selection are the constants of the current iteration.  session lists    *)
(* what was answered and called.  processFolder is taken by its call and    *)
(* by how many files it found.                                              *)
(***************************************************************************)
MaxMenus == 2

FolderInputs ==
    { Typed(<<"/","p">>), Typed(<<"'","/","a","\\"," ","b","'"," ">>),
      Typed(<<"E","s","c"," ">>), Typed(<<"b","a","c","k">>), CtrlC, PromptFailure }

SelectInputs ==
    { [kind |-> "empty"], Typed(<<"8","0","0">>), Typed(<<"c","a","n","c","e","l">>),
      CtrlC, PromptFailure }

ConfirmAnswers == {"yes", "no", "enter", "ctrlc"}

AtMenu == [ pc |-> "menu", folderPath |-> Undefined, recursive |-> Undefined,
            confirmed |-> Undefined, selection |-> Undefined ]

Event(ev, v) == [ev |-> ev, v |-> v]

\* where the loop goes after the confirmation: if (!confirmed) continue
AfterConfirmAlways(confirmed) == "erase:process"

AfterConfirm(confirmed) == IF Falsy(confirmed) THEN "menu" ELSE "erase:process"

\* the files processFolder can find: none at a path that is no string (readdirSync
\* throws inside scanDirectory, which catches it)
FilesFound(folderPath) == IF folderPath.t = "string" THEN {0, 2} ELSE {0}

CliInit ==
    /\ cli = [AtMenu EXCEPT !.pc = "menu"] @@ [menus |-> 0]
    /\ session = <<>>
    /\ TypesIdle /\ TagsIdle /\ FileIdle /\ BatchIdle /\ StoreIdle

\* the catch block of runInteractive: process.exit(1)
Crash(ev, r) ==
    /\ cli' = [cli EXCEPT !.pc = "crashed"]
    /\ session' = Append(session, Event(ev, r))

\* const action = await cli.promptMainMenu()
PromptMainMenu ==
    /\ cli.pc = "menu" /\ cli.menus < MaxMenus
    /\ \E answer \in {"apply", "erase", "manage", "exit", "enter", "ctrlc"} :
       \E r \in {promptMainMenu(answer)} :
          /\ session' = Append(session, Event("menu", r))
          /\ cli' = [AtMenu @@ [menus |-> cli.menus + 1] EXCEPT !.pc =
                        IF r.threw # "none" THEN "crashed"
                        ELSE CASE r.value = "exit" -> "exited"
                               [] r.value = "manage" -> "manage"
                               [] r.value = "erase" -> "erase:folder"
                               [] r.value = "apply" -> "apply:select"]
    /\ UNCHANGED <<typeVars, tagVars, fileVars, batchVars, storeVars>>

\* const result = await cli.managementCLI.showMainManagementMenu(), until 'back'
ShowManagementMenu ==
    /\ cli.pc = "manage"
    /\ \E result \in {"back", "again"} :
          IF result = "back"
          THEN /\ cli' = [cli EXCEPT !.pc = "menu"]
               /\ session' = Append(session, Event("manage", Returned(result)))
          ELSE UNCHANGED cliVars
    /\ UNCHANGED <<typeVars, tagVars, fileVars, batchVars, storeVars>>

\* const selection = await cli.selectSetupAndFilm(); if (!selection) continue
SelectSetupAndFilm ==
    /\ cli.pc = "apply:select"
    /\ \E input \in SelectInputs :
       \E r \in {selectSetupAndFilm(input)} :
          IF r.threw # "none" THEN Crash("select", r)
          ELSE /\ session' = Append(session, Event("select", r))
               /\ cli' = IF Falsy(r.value) THEN [cli EXCEPT !.pc = "menu"]
                         ELSE [cli EXCEPT !.pc = "apply:folder", !.selection = r.value]
    /\ UNCHANGED <<typeVars, tagVars, fileVars, batchVars, storeVars>>

\* const folderPath = await cli.promptFolderPath()
PromptFolderPath ==
    /\ cli.pc \in {"erase:folder", "apply:folder"}
    /\ \E input \in FolderInputs :
       \E r \in {promptFolderPath(input)} :
          IF r.threw # "none" THEN Crash("folder", r)
          ELSE /\ session' = Append(session, Event("folder", r))
               /\ cli' = [cli EXCEPT !.folderPath = r.value,
                                     !.pc = IF cli.pc = "erase:folder"
                                            THEN "erase:recursive" ELSE "apply:recursive"]
    /\ UNCHANGED <<typeVars, tagVars, fileVars, batchVars, storeVars>>

\* const recursive = await cli.promptRecursiveProcessing()
PromptRecursiveProcessing ==
    /\ cli.pc \in {"erase:recursive", "apply:recursive"}
    /\ \E answer \in ConfirmAnswers :
       \E r \in {promptRecursiveProcessing(answer)} :
          IF r.threw # "none" THEN Crash("recursive", r)
          ELSE /\ session' = Append(session, Event("recursive", r))
               /\ cli' = [cli EXCEPT !.recursive = r.value,
                                     !.pc = IF cli.pc = "erase:recursive"
                                            THEN "erase:confirm" ELSE "apply:process"]
    /\ UNCHANGED <<typeVars, tagVars, fileVars, batchVars, storeVars>>

\* const confirmed = await cli.confirmEraseExif(); if (!confirmed) continue
ConfirmEraseExif ==
    /\ cli.pc = "erase:confirm"
    /\ \E answer \in ConfirmAnswers :
       \E r \in {confirmEraseExif(answer)} :
          IF r.threw # "none" THEN Crash("confirm", r)
          ELSE /\ session' = Append(session, Event("confirm", r))
               /\ cli' = [cli EXCEPT !.confirmed = r.value, !.pc = AfterConfirm(r.value)]
    /\ UNCHANGED <<typeVars, tagVars, fileVars, batchVars, storeVars>>

\* const result = await exifManager.processFolder(folderPath, selection | null, action,
\* recursive), its report, and continue
ProcessFolderStep ==
    /\ cli.pc \in {"erase:process", "apply:process"}
    /\ \E found \in FilesFound(cli.folderPath) :
          /\ session' = Append(session,
                 Event("processFolder",
                       [ folderPath |-> cli.folderPath,
                         selection |-> IF cli.pc = "erase:process" THEN Null
                                       ELSE cli.selection,
                         action |-> IF cli.pc = "erase:process" THEN "erase" ELSE "apply",
                         recursive |-> cli.recursive, found |-> found ]))
          /\ cli' = [cli EXCEPT !.pc = "menu"]
    /\ UNCHANGED <<typeVars, tagVars, fileVars, batchVars, storeVars>>

CliNext ==
    \/ PromptMainMenu \/ ShowManagementMenu \/ SelectSetupAndFilm \/ PromptFolderPath
    \/ PromptRecursiveProcessing \/ ConfirmEraseExif \/ ProcessFolderStep

SpecCli == CliInit /\ [][CliNext]_vars

(***************************************************************************)
(* Properties of the batch loop (Spec, FairSpec)                           *)
(***************************************************************************)
CountTrue(files) == Cardinality({i \in 1..Len(files) : files[i].success = Bool(TRUE)})

TalliesOf(res) ==
    /\ res.total = Len(supportedFiles)
    /\ res.processed = CountTrue(res.files)
    /\ res.failed = Len(res.files) - CountTrue(res.files)
    /\ res.processed + res.failed = Len(res.files)

\* C1: a processFolder run that found N >= 1 supported files keeps, during the loop,
\* processed + failed equal to the number of results recorded so far (processed the
\* results whose success is true, failed the others, total = N), and returns tallies with
\* total = N, files.length = N and processed + failed = total.
C1_Tallies ==
    /\ pc = "loop" => TalliesOf(results) /\ Len(results.files) < results.total
    /\ (pc = "returned" /\ Len(supportedFiles) >= 1) =>
          /\ ret.success
          /\ TalliesOf(ret.results)
          /\ Len(ret.results.files) = Len(supportedFiles)
          /\ ret.results.processed + ret.results.failed = ret.results.total

\* a returned batch of three files with successes and failures
C1_Witness ==
    /\ pc = "returned" /\ Len(supportedFiles) = 3
    /\ ret.results.processed >= 1 /\ ret.results.failed >= 1

SameFilesInOrder(files) ==
    /\ Len(files) = Len(supportedFiles)
    /\ \A i \in 1..Len(files) : files[i].name = supportedFiles[i].name

\* C2: a per-file failure never aborts the batch: once processFolder is in its loop with
\* action apply or erase it eventually returns success:true with exactly one result for
\* every enumerated file, in order, whichever files failed.
C2_BatchCompletes ==
    (pc = "loop" /\ args.action \in {"apply", "erase"})
        ~> (pc = "returned" /\ ret.success /\ SameFilesInOrder(ret.results.files))

\* a returned batch whose first file failed and whose second file succeeded
C2_Witness ==
    /\ pc = "returned" /\ args.action \in {"apply", "erase"}
    /\ Len(supportedFiles) >= 2
    /\ ret.results.files[1].success = Bool(FALSE)
    /\ ret.results.files[2].success = Bool(TRUE)

\* the files of the tree, by path, as they were before the batch
DiskBefore ==
    [p \in {NodePath(folder.nodes, i) : i \in FileNodes(folder.nodes)} |-> InitialContent(p)]
SidecarsBefore ==
    [p \in {NodePath(folder.nodes, i) : i \in FileNodes(folder.nodes)} |-> NoSidecar]

\* the regular files processFolder is asked about: the direct children of the root, and
\* with recursive the files at every depth
InScope(i) == folder.nodes[i].kind = "file" /\ (args.recursive \/ folder.nodes[i].parent = 0)

Classified(i) == getFileType(folder.nodes[i].name) # "unknown"

NothingToProcess ==
    ~folder.readable \/ \A i \in 1..Len(folder.nodes) : InScope(i) => ~Classified(i)

\* C3: when the root cannot be read (missing or unreadable) or holds no supported file,
\* processFolder returns {success:false, message} with the "No supported image files"
\* message; no codec is invoked and no file or sidecar is written.
C3_NothingToProcess ==
    (pc # "idle" /\ NothingToProcess) =>
        /\ pc = "returned"
        /\ ret.success = FALSE
        /\ ret.message \in
             { "No supported image files (JPEG, TIFF, DNG, RAW) found in the specified folder.",
               "No supported image files (JPEG, TIFF, DNG, RAW) found in the specified folder (including subdirectories)." }
        /\ calls = <<>>
        /\ disk = DiskBefore /\ sidecars = SidecarsBefore

\* a readable root whose only files are unsupported ones, after the call
C3_Witness ==
    /\ pc = "returned" /\ folder.readable /\ NothingToProcess
    /\ \E i \in 1..Len(folder.nodes) : InScope(i)

EnumeratedPaths == {supportedFiles[i].path : i \in 1..Len(supportedFiles)}

ExpectedPaths ==
    IF folder.readable
    THEN {NodePath(folder.nodes, i) : i \in {j \in 1..Len(folder.nodes) : InScope(j) /\ Classified(j)}}
    ELSE {}

\* C4 (as the specification states it): the files a batch enumerates are exactly the regular
\* files under the root whose classification is supported (direct children only unless
\* recursive), and the batch reports success:true whenever at least one is enumerated.
C4_EnumeratesExactly ==
    pc # "idle" =>
        /\ EnumeratedPaths = ExpectedPaths
        /\ Len(supportedFiles) = Cardinality(ExpectedPaths)
        /\ (pc = "returned" /\ ExpectedPaths # {}) => ret.success

\* what does hold: nothing but supported regular files in scope is ever enumerated, each at
\* most once, and a batch that enumerated a file reports success:true even if all fail
C4_EnumeratesOnlySupported ==
    pc # "idle" =>
        /\ EnumeratedPaths \subseteq ExpectedPaths
        /\ Len(supportedFiles) = Cardinality(EnumeratedPaths)
        /\ (pc = "returned" /\ Len(supportedFiles) >= 1) => ret.success

(***************************************************************************)
(* Properties of the ExifManager dispatch and of validation (SpecFile)     *)
(***************************************************************************)
Has(events, e) == \E i \in 1..Len(events) : events[i] = e

HasAny(events, es) == \E i \in 1..Len(events) : events[i] \in es

\* the steps that touch the file, its sidecar or a library
IOEvents ==
    { "read", "read:throw", "load", "load:throw", "dump:full", "dump:full:throw",
      "dump:basic", "dump:basic:throw", "dump:minimal", "dump:minimal:throw",
      "insert", "insert:throw", "write", "write:throw", "remove", "remove:throw",
      "decode", "decode:throw", "decode:empty", "encode", "encode:throw",
      "sidecar", "sidecar:throw", "unlink", "unlink:throw", "nosidecar" }

SidecarEvents == {"sidecar", "sidecar:throw", "unlink", "unlink:throw", "nosidecar"}

\* the steps after which the TIFF codec falls back to a sidecar
TiffFailures == {"decode:throw", "encode:throw", "write:throw"}

\* C5: the ExifManager hands a file to exactly one strategy by its classification: jpeg to
\* the JPEG codec, tiff to the TIFF codec, dng to the TIFF codec first with a sidecar only
\* after the TIFF codec failed, any other raw format straight to the sidecar (created on
\* apply, removed on erase); for an unsupported file apply and erase return false with no
\* codec invoked and nothing touched.
C5_Dispatch ==
    lastOp.run =>
        LET type == getFileType(fpath)
            ev == lastOp.events
        IN  /\ type = "jpeg" =>
                 /\ ev[1] = "jpeg"
                 /\ ~HasAny(ev, {"tiff", "raw"} \cup SidecarEvents)
                 /\ fside = lastOp.sideBefore
            /\ type = "tiff" =>
                 /\ ev[1] = "tiff"
                 /\ ~HasAny(ev, {"jpeg", "raw"})
            /\ type = "dng" =>
                 /\ ev[1] = "raw"
                 /\ ~Has(ev, "jpeg")
                 /\ ev # <<"raw", "validate:throw">> => ev[2] = "tiff"
                 /\ HasAny(ev, SidecarEvents) =>
                        /\ lastOp.op = "apply"
                        /\ ev[Len(ev)] \in {"sidecar", "sidecar:throw"}
                        /\ ev[Len(ev) - 1] \in TiffFailures
            /\ type = "raw" =>
                 /\ ev[1] = "raw"
                 /\ ~HasAny(ev, {"jpeg", "tiff", "read", "decode", "encode", "write"})
                 /\ fdata = lastOp.before
                 /\ lastOp.op = "apply" =>
                        ev \in { <<"raw", "validate:throw">>, <<"raw", "validate", "sidecar">>,
                                 <<"raw", "validate", "sidecar:throw">> }
                 /\ lastOp.op = "erase" =>
                        ev \in { <<"raw", "unlink">>, <<"raw", "unlink:throw">>,
                                 <<"raw", "nosidecar">> }
            /\ type = "unknown" =>
                 /\ lastOp.success = FALSE
                 /\ ev = <<"unsupported">>
                 /\ fdata = lastOp.before /\ fside = lastOp.sideBefore

\* an apply on a .dng whose TIFF rewrite failed at encode and fell back to the sidecar
C5_Witness ==
    /\ lastOp.run /\ lastOp.op = "apply" /\ getFileType(fpath) = "dng"
    /\ lastOp.events[2] = "tiff" /\ Has(lastOp.events, "encode:throw")
    /\ Has(lastOp.events, "sidecar") /\ lastOp.success

\* a Selection that is null (or undefined) or lacks camera or film
LacksCameraOrFilm(selection) ==
    \/ selection.t \in {"null", "undefined"}
    \/ selection.setup.t \in {"null", "undefined"}
    \/ selection.setup.camera.t \in {"null", "undefined"}
    \/ selection.film.t \in {"null", "undefined"}

\* C8: an apply whose Selection is null or lacks camera or film is rejected before any
\* I/O in every codec: it returns false, the file is neither read nor written, no sidecar
\* is created, no fallback tier and no sidecar fallback is attempted.
C8_RejectedBeforeIO ==
    (lastOp.run /\ lastOp.op = "apply" /\ LacksCameraOrFilm(lastOp.selection)) =>
        /\ lastOp.success = FALSE
        /\ ~HasAny(lastOp.events, IOEvents)
        /\ getFileType(fpath) # "unknown" =>
               lastOp.events[Len(lastOp.events)] = "validate:throw"
        /\ fdata = lastOp.before
        /\ fside = lastOp.sideBefore

\* an apply without camera on a .dng that holds a TIFF, rejected by the raw processor
C8_Witness ==
    /\ lastOp.run /\ lastOp.op = "apply"
    /\ getFileType(fpath) = "dng" /\ lastOp.selection = SelNoCamera
    /\ fdata.fmt = "tiff"
    /\ lastOp.events = <<"raw", "validate:throw">>

HasCameraAndFilmNoLens(selection) ==
    /\ ~LacksCameraOrFilm(selection)
    /\ selection.setup.lens.t \in {"null", "undefined"}

\* C9 (as the specification states it): a Selection with camera and film and no lens
\* passes validation in every codec, and an apply that meets no fault succeeds.
C9_LensOptional ==
    (/\ lastOp.run /\ lastOp.op = "apply"
     /\ HasCameraAndFilmNoLens(lastOp.selection)
     /\ getFileType(fpath) # "unknown") =>
        ~Has(lastOp.events, "validate:throw")

(***************************************************************************)
(* Properties of the classification functions (SpecTypes)                  *)
(***************************************************************************)
\* C6: getFileType returns exactly one of five classes, decided by the lowercased
\* extension alone, whatever the case of the path; dng is 'dng' although the raw list
\* holds it too; 'unknown' is returned exactly when the extension is in none of the four
\* sets (the empty extension included); isSupportedFile holds exactly when the class is
\* not 'unknown'.
C6_GetFileType ==
    tout.run =>
        /\ tout.type \in {"jpeg", "tiff", "dng", "raw", "unknown"}
        /\ tout.type = "jpeg" <=> tout.ext \in JpegExts
        /\ tout.type = "tiff" <=> tout.ext \in TiffExts
        /\ tout.type = "dng" <=> tout.ext \in DngExts
        /\ tout.type = "raw" <=> tout.ext \in RawExts \ DngExts
        /\ tout.type = "unknown" <=>
               tout.ext \notin JpegExts \cup TiffExts \cup DngExts \cup RawExts
        /\ tout.ext = <<>> => tout.type = "unknown"
        /\ tout.ext = toLowerCase(tout.ext)
        /\ getFileType(toUpperCase(tpath)) = tout.type
        /\ getFileType(toLowerCase(tpath)) = tout.type
        /\ tout.supported <=> tout.type # "unknown"

\* a path with an upper-case .DNG extension, classified 'dng'
C6_Witness ==
    /\ tout.run /\ tout.type = "dng" /\ tout.raw
    /\ tpath = toUpperCase(tpath) /\ tpath # toLowerCase(tpath)

\* the extension the specification describes: nothing when the base name has no dot, ends
\* with a dot or has its only dot in front; else the lowercased text after the last dot
DescribedExtension(filePath) ==
    LET fileName == basename(filePath)
        dots == {i \in 1..Len(fileName) : fileName[i] = "."}
    IN  IF dots = {} \/ Len(fileName) \in dots \/ dots = {1}
        THEN <<>>
        ELSE LET last == CHOOSE i \in dots : \A j \in dots : j <= i
             IN  toLowerCase(SubSeq(fileName, last + 1, Len(fileName)))

\* C7 (as the specification states it): getFileExtension returns the lowercased text after
\* the last dot of the base name, and the empty string when the base name has no dot, ends
\* with a dot, or is a hidden file whose only dot is the leading one.
C7_GetFileExtension == tout.run => tout.ext = DescribedExtension(tpath)

\* what does hold: the two agree on every base name that is not a dot followed by a name
C7_ExceptHidden ==
    (tout.run /\ tout.ext # DescribedExtension(tpath)) =>
        /\ basename(tpath)[1] = "."
        /\ tout.ext = toLowerCase(Tail(basename(tpath)))

(***************************************************************************)
(* Properties of setExifValue (SpecTags)                                   *)
(***************************************************************************)
AllWhitespace(v) == v.t = "string" /\ \A i \in 1..Len(v.s) : IsWhitespace(v.s[i])

\* the store after the call holds value at (segment, tag) and is otherwise the store before
WroteExactly(before, after, segment, tag, value) ==
    /\ DOMAIN after = DOMAIN before \cup {segment}
    /\ \A seg \in DOMAIN before \ {segment} : after[seg] = before[seg]
    /\ after[segment][tag] = value
    /\ LET old == IF segment \in DOMAIN before THEN before[segment] ELSE <<>>
       IN  /\ DOMAIN after[segment] = DOMAIN old \cup {tag}
           /\ \A t \in DOMAIN old \ {tag} : after[segment][t] = old[t]

\* what JavaScript's !value accepts besides null and undefined
FalsyButNotNullish(v) ==
    \/ v.t = "nan"
    \/ v.t = "number" /\ v.n = 0
    \/ v.t = "boolean" /\ v.b = FALSE

\* C10 (as the specification states it): setExifValue leaves the store unchanged when the
\* value is null, undefined or an all-whitespace string, and for every other value sets
\* store[segment][tag] to it, creating the bucket when missing, changing no other slot.
C10_SetExifValue ==
    setCall.run =>
        IF setCall.value.t \in {"null", "undefined"} \/ AllWhitespace(setCall.value)
        THEN exifObj = setCall.before
        ELSE WroteExactly(setCall.before, exifObj, EXIF_TAGS[setCall.configKey][1],
                          EXIF_TAGS[setCall.configKey][2], setCall.value)

\* C10 (amended): setExifValue leaves the store unchanged when the value is falsy (null,
\* undefined, 0, NaN, false, the empty string) or an all-whitespace string, and for every
\* other value sets store[segment][tag] to it, creating the bucket when missing, changing
\* no other slot.
C10_SetExifValueFalsy ==
    setCall.run =>
        IF \/ setCall.value.t \in {"null", "undefined"}
           \/ FalsyButNotNullish(setCall.value)
           \/ AllWhitespace(setCall.value)
        THEN exifObj = setCall.before
        ELSE WroteExactly(setCall.before, exifObj, EXIF_TAGS[setCall.configKey][1],
                          EXIF_TAGS[setCall.configKey][2], setCall.value)

\* a second call, with the number 400, that created the missing Exif bucket next to a
\* 0th bucket it kept
C10_Witness ==
    /\ setCall.run /\ setCall.n = 2 /\ setCall.value = Num(400)
    /\ "Exif" \notin DOMAIN setCall.before /\ "0th" \in DOMAIN setCall.before
    /\ "Exif" \in DOMAIN exifObj /\ exifObj["0th"] = setCall.before["0th"]

(***************************************************************************)
(* Properties of what apply writes into the file (SpecFile)                *)
(***************************************************************************)
Missing == [t |-> "missing"]

\* the value a JPEG file holds at (ifd, tag), Missing when it holds none
SegmentSlot(file, ifd, tag) ==
    IF file.fmt = "jpeg" /\ file.exif.t = "segment"
    THEN IF ifd \in DOMAIN file.exif.ifds
         THEN IF tag \in DOMAIN file.exif.ifds[ifd] THEN file.exif.ifds[ifd][tag] ELSE Missing
         ELSE Missing
    ELSE Missing

\* the value a TIFF file holds in a slot of its first IFD, Missing when it holds none
IfdSlot(file, slot) ==
    IF file.fmt = "tiff"
    THEN IF slot \in DOMAIN file.ifd THEN file.ifd[slot] ELSE Missing
    ELSE Missing

LastEvent == lastOp.events[Len(lastOp.events)]

\* the last call was an apply that rewrote a JPEG file
JpegWroteInPlace ==
    /\ lastOp.run /\ lastOp.op = "apply" /\ lastOp.success
    /\ lastOp.events[1] = "jpeg" /\ LastEvent = "write"

\* the last call was an apply that rewrote a TIFF or DNG file
TiffWroteInPlace ==
    /\ lastOp.run /\ lastOp.op = "apply" /\ lastOp.success
    /\ Has(lastOp.events, "tiff") /\ LastEvent = "write"

\* the (ifd, tag) slots of the JPEG file that the last call filled or changed
SegmentSlotsWritten ==
    IF fdata.fmt = "jpeg" /\ fdata.exif.t = "segment"
    THEN { <<ifd, tag>> \in UNION { {ifd} \X DOMAIN fdata.exif.ifds[ifd] :
                                      ifd \in DOMAIN fdata.exif.ifds } :
              SegmentSlot(fdata, ifd, tag) # SegmentSlot(lastOp.before, ifd, tag) }
    ELSE {}

\* the slots of the TIFF file that the last call filled or changed
IfdSlotsWritten ==
    IF fdata.fmt = "tiff"
    THEN { slot \in DOMAIN fdata.ifd : IfdSlot(fdata, slot) # IfdSlot(lastOp.before, slot) }
    ELSE {}

\* the slot of a TIFF IFD that carries a tag id
SlotOfTag ==
    (ImageIFD_Make :> "t271") @@ (ImageIFD_Model :> "t272") @@ (ImageIFD_Artist :> "t315")
    @@ (ExifIFD_FNumber :> "t33437") @@ (ExifIFD_ISOSpeedRatings :> "t34855")
    @@ (ExifIFD_ISOSpeed :> "t34867") @@ (ExifIFD_FocalLength :> "t37386")
    @@ (ExifIFD_LensMake :> "t42035") @@ (ExifIFD_LensModel :> "t42036")

TableSlots == { <<EXIF_TAGS[k][1], EXIF_TAGS[k][2]>> : k \in ConfigKeys }

\* C11 (as the specification states it): every codec that writes tags in place uses the
\* field-to-tag mapping of the fixed table: the JPEG codec fills no slot outside the table,
\* the TIFF/DNG codec fills, besides the two structural tags, only slots of tag ids of the
\* table, and it writes a present shot ISO to the slot of ISOSpeed (34867) as the JPEG
\* codec does.
C11_SameMapping ==
    /\ JpegWroteInPlace => SegmentSlotsWritten \subseteq TableSlots
    /\ TiffWroteInPlace =>
          /\ IfdSlotsWritten \subseteq
                 {SlotOfTag[EXIF_TAGS[k][2]] : k \in ConfigKeys} \cup {"t256", "t257"}
          /\ Truthy(lastOp.selection.shotISO) =>
                 IfdSlot(fdata, SlotOfTag[EXIF_TAGS.shotISO[2]]) = lastOp.selection.shotISO

\* what does hold: the JPEG codec fills only slots of the table, and the TIFF/DNG codec
\* uses the table's tag ids for every field but the shot ISO, which it puts in slot 34864
C11_SameMappingButShotISO ==
    /\ JpegWroteInPlace => SegmentSlotsWritten \subseteq TableSlots
    /\ TiffWroteInPlace =>
          /\ IfdSlotsWritten \subseteq
                 {SlotOfTag[EXIF_TAGS[k][2]] : k \in ConfigKeys \ {"shotISO"}}
                     \cup {"t256", "t257", "t34864"}
          /\ IfdSlot(fdata, SlotOfTag[ImageIFD_Make]) = lastOp.selection.setup.camera.maker
          /\ IfdSlot(fdata, SlotOfTag[ImageIFD_Model]) = lastOp.selection.setup.camera.model
          /\ IfdSlot(fdata, SlotOfTag[ExifIFD_LensMake]) = lastOp.selection.setup.lens.maker
          /\ IfdSlot(fdata, SlotOfTag[ExifIFD_ISOSpeedRatings]) =
                 Arr(<<lastOp.selection.film.iso>>)
          /\ IfdSlot(fdata, SlotOfTag[ImageIFD_Artist]) = lastOp.selection.photographer
          /\ Truthy(lastOp.selection.shotISO) =>
                 /\ IfdSlot(fdata, "t34864") = lastOp.selection.shotISO
                 /\ IfdSlot(fdata, SlotOfTag[ExifIFD_ISOSpeed]) =
                        IfdSlot(lastOp.before, SlotOfTag[ExifIFD_ISOSpeed])

\* shotISO is a number other than film.iso
ShotISOGivenAndDifferent(selection) ==
    selection.shotISO.t = "number" /\ selection.shotISO # selection.film.iso

\* the slots a TIFF IFD can carry the shot ISO in: the one the codec uses, the table's one
TiffShotISOSlots == {"t34864", SlotOfTag[ExifIFD_ISOSpeed]}

JpegShotISORule ==
    JpegWroteInPlace =>
        /\ SegmentSlot(fdata, "Exif", ExifIFD_ISOSpeedRatings) =
               Arr(<<lastOp.selection.film.iso>>)
        /\ IF ShotISOGivenAndDifferent(lastOp.selection)
           THEN SegmentSlot(fdata, "Exif", ExifIFD_ISOSpeed) = lastOp.selection.shotISO
           ELSE SegmentSlot(fdata, "Exif", ExifIFD_ISOSpeed) \in
                    {Missing, SegmentSlot(lastOp.before, "Exif", ExifIFD_ISOSpeed)}

\* C12 (as the specification states it): an apply that rewrote the file wrote the film ISO
\* as a one-element sequence; it wrote the shot ISO when shotISO is present and differs
\* from film.iso, and otherwise wrote no shot-ISO tag (the slot is empty or as it was),
\* in the three JPEG tiers and in the TIFF/DNG codec.
C12_ShotISOOnlyWhenDiffers ==
    /\ JpegShotISORule
    /\ TiffWroteInPlace =>
          /\ IfdSlot(fdata, SlotOfTag[ExifIFD_ISOSpeedRatings]) =
                 Arr(<<lastOp.selection.film.iso>>)
          /\ IF ShotISOGivenAndDifferent(lastOp.selection)
             THEN \E slot \in TiffShotISOSlots :
                      IfdSlot(fdata, slot) = lastOp.selection.shotISO
             ELSE \A slot \in TiffShotISOSlots :
                      IfdSlot(fdata, slot) = IfdSlot(lastOp.before, slot)

\* what does hold: the rule in the three JPEG tiers; the TIFF/DNG codec writes the film
\* ISO sequence and writes the shot ISO whenever one is given, equal to film.iso or not
C12_ShotISOJpegOnly ==
    /\ JpegShotISORule
    /\ TiffWroteInPlace =>
          /\ IfdSlot(fdata, SlotOfTag[ExifIFD_ISOSpeedRatings]) =
                 Arr(<<lastOp.selection.film.iso>>)
          /\ IF Truthy(lastOp.selection.shotISO)
             THEN IfdSlot(fdata, "t34864") = lastOp.selection.shotISO
             ELSE IfdSlot(fdata, "t34864") = IfdSlot(lastOp.before, "t34864")

\* the optional text fields of a Selection
StringFields == {"photographer", "lensMaker", "lensModel", "cameraMaker", "cameraModel"}

FieldValue(selection, field) ==
    CASE field = "photographer" -> selection.photographer
      [] field = "lensMaker" -> selection.setup.lens.maker
      [] field = "lensModel" -> selection.setup.lens.model
      [] field = "cameraMaker" -> selection.setup.camera.maker
      [] field = "cameraModel" -> selection.setup.camera.model

\* the element of the sidecar document that carries a field
ElementOfField ==
    [ cameraMaker |-> "Make", cameraModel |-> "Model", lensMaker |-> "LensMake",
      lensModel |-> "LensModel", photographer |-> "creator" ]

\* the field is an empty or all-whitespace string (for the lens model: and the lens has
\* neither focal length nor aperture, which the LensModel text would carry too)
BlankField(selection, field) ==
    /\ AllWhitespace(FieldValue(selection, field))
    /\ field = "lensModel" =>
           Falsy(selection.setup.lens.focalLength) /\ Falsy(selection.setup.lens.aperture)

\* the last call was an apply that wrote the sidecar
SidecarWritten ==
    /\ lastOp.run /\ lastOp.op = "apply" /\ lastOp.success /\ LastEvent = "sidecar"

\* what a file and its sidecar hold for a field, in the output the last call produced
OutputOfField(file, side, field) ==
    IF JpegWroteInPlace THEN SegmentSlot(file, EXIF_TAGS[field][1], EXIF_TAGS[field][2])
    ELSE IF TiffWroteInPlace THEN IfdSlot(file, SlotOfTag[EXIF_TAGS[field][2]])
    ELSE IF side.t = "xmp"
    THEN IF ElementOfField[field] \in DOMAIN side.elements
         THEN Str(side.elements[ElementOfField[field]]) ELSE Missing
    ELSE Missing

\* the blank fields of the last call's Selection are absent from its output: a slot of the
\* file is empty or as it was, an element of the sidecar is missing
BlankFieldsAbsent ==
    \A field \in StringFields :
        BlankField(lastOp.selection, field) =>
            OutputOfField(fdata, fside, field) \in
                {Missing} \cup (IF SidecarWritten THEN {}
                                ELSE {OutputOfField(lastOp.before, lastOp.sideBefore, field)})

\* C13 (as the specification states it): an optional string field that is empty or
\* all-whitespace is absent from whatever apply writes (JPEG full, basic and minimal tiers,
\* TIFF/DNG slots, sidecar), never written as an empty, whitespace or placeholder value.
C13_BlankFieldsAbsent ==
    (JpegWroteInPlace \/ TiffWroteInPlace \/ SidecarWritten) => BlankFieldsAbsent

\* what does hold: the full JPEG tier, which goes through setExifValue, leaves them out
C13_BlankFieldsAbsentFullTier ==
    (JpegWroteInPlace /\ Has(lastOp.events, "dump:full")) => BlankFieldsAbsent

\* the text the specification describes for LensModel: '<focalLength>mm' when the lens has
\* a focal length and the model name otherwise, then ' f/<aperture>' when there is one
DescribedLensModel(lens) ==
    LET head == IF Truthy(lens.focalLength)
                THEN <<TemplateString(lens.focalLength) \o <<"m","m">>>>
                ELSE IF Truthy(lens.model) THEN <<TemplateString(lens.model)>> ELSE <<>>
        tail == IF Truthy(lens.aperture)
                THEN <<<<"f","/">> \o TemplateString(lens.aperture)>> ELSE <<>>
    IN  JoinWith(head \o tail, <<" ">>)

\* the LensModel text in the output of the last call, Missing when it wrote none
LensModelWritten ==
    IF JpegWroteInPlace /\ Has(lastOp.events, "dump:full")
    THEN IF AllWhitespace(getLensModelWithAperture(lastOp.selection.setup.lens))
         THEN Missing
         ELSE SegmentSlot(fdata, "Exif", ExifIFD_LensModel)
    ELSE IF TiffWroteInPlace THEN IfdSlot(fdata, SlotOfTag[ExifIFD_LensModel])
    ELSE IF SidecarWritten THEN Str(fside.elements.LensModel)
    ELSE Missing

\* C14 (as the specification states it): the string written to LensModel is
\* '<focalLength>mm' when the lens has a focal length and the lens model name otherwise,
\* followed by ' f/<aperture>' when an aperture is present ('50mm f/1.2' for the lens
\* Canon FD 50 1.2).
C14_LensModelText ==
    LensModelWritten # Missing =>
        LensModelWritten = Str(DescribedLensModel(lastOp.selection.setup.lens))

\* what does hold: the string is the model name, then '<focalLength>mm', then
\* 'f/<aperture>', each when present, joined by spaces; it is the described one exactly
\* when the lens lacks a model name or a focal length
C14_LensModelAllParts ==
    LensModelWritten # Missing =>
        LET lens == lastOp.selection.setup.lens
        IN  /\ LensModelWritten = getLensModelWithAperture(lens)
            /\ (Falsy(lens.model) \/ Falsy(lens.focalLength)) =>
                   LensModelWritten = Str(DescribedLensModel(lens))
            /\ (Truthy(lens.model) /\ Truthy(lens.focalLength)) =>
                   LensModelWritten =
                       Str(TemplateString(lens.model) \o <<" ">> \o DescribedLensModel(lens))

(***************************************************************************)
(* Properties of failure handling (SpecFile)                               *)
(***************************************************************************)
\* the last call went through the TIFF codec and met a container failure
TiffContainerFailure ==
    /\ lastOp.run /\ Has(lastOp.events, "tiff")
    /\ HasAny(lastOp.events, {"decode:throw", "decode:empty", "encode:throw"})

TiffDecodeFailure ==
    /\ lastOp.run /\ Has(lastOp.events, "tiff")
    /\ HasAny(lastOp.events, {"decode:throw", "decode:empty"})

\* apply fell back to the sidecar: it left the file alone, wrote the sidecar and reported
\* success, or failed at writing the sidecar and reported that
RoutedToSidecar ==
    /\ LastEvent \in {"sidecar", "sidecar:throw"}
    /\ fdata = lastOp.before
    /\ lastOp.success <=> LastEvent = "sidecar"
    /\ lastOp.success => fside = generateXmpSidecar(lastOp.selection)
    /\ ~lastOp.success => fside = lastOp.sideBefore

FailedUntouched ==
    /\ lastOp.success = FALSE
    /\ fdata = lastOp.before
    /\ fside = lastOp.sideBefore
    /\ ~HasAny(lastOp.events, SidecarEvents)

\* C15 (as the specification states it): in the TIFF/DNG codec a container failure is a
\* routing signal on apply and a hard failure on erase: when decoding or encoding fails
\* during apply the sidecar is created, the file is not written and apply reports success
\* (failure only if the sidecar cannot be written); when decoding fails during erase, erase
\* returns false and neither creates nor removes a sidecar.
C15_ContainerFailure ==
    /\ (TiffContainerFailure /\ lastOp.op = "apply") => RoutedToSidecar
    /\ (TiffDecodeFailure /\ lastOp.op = "erase") => FailedUntouched

\* what does hold: a decode or encode that throws routes apply to the sidecar, but a decode
\* that returns no IFD makes apply return false with nothing written, as on erase
C15_ContainerFailureThrown ==
    /\ (TiffContainerFailure /\ lastOp.op = "apply") =>
           IF Has(lastOp.events, "decode:empty") THEN FailedUntouched ELSE RoutedToSidecar
    /\ (TiffDecodeFailure /\ lastOp.op = "erase") => FailedUntouched

\* the last call met a failing read or write of the target file
TargetIOFailure == lastOp.run /\ HasAny(lastOp.events, {"read:throw", "write:throw"})

\* C16 (as the specification states it): a filesystem read or write failure on the target
\* file is terminal for that file in the JPEG codec and in the TIFF/DNG codec: the result is
\* false and no further step (retry, lower tier, sidecar fallback) is executed.
C16_IOFailureTerminal ==
    TargetIOFailure =>
        /\ lastOp.success = FALSE
        /\ LastEvent \in {"read:throw", "write:throw"}
        /\ fdata = lastOp.before
        /\ fside = lastOp.sideBefore

\* what does hold: it is terminal everywhere but for a failing write in the TIFF/DNG apply,
\* which goes on to the sidecar and reports what createSidecarFile returned
C16_IOFailureTerminalButTiffWrite ==
    TargetIOFailure =>
        /\ fdata = lastOp.before
        /\ IF lastOp.op = "apply" /\ Has(lastOp.events, "tiff")
              /\ Has(lastOp.events, "write:throw")
           THEN RoutedToSidecar
           ELSE /\ lastOp.success = FALSE
                /\ LastEvent \in {"read:throw", "write:throw"}
                /\ fside = lastOp.sideBefore

(***************************************************************************)
(* Properties of erase (SpecFile)                                          *)
(***************************************************************************)
\* the faults the environment can put in the way of an erase
EraseFaults == {"read:throw", "encode:throw", "write:throw", "unlink:throw"}

\* the last two calls were erases, and the first of them succeeded
ErasedTwice ==
    /\ lastOp.run /\ lastOp.op = "erase"
    /\ lastOp.prev.run /\ lastOp.prev.op = "erase" /\ lastOp.prev.success

AppliedThenErased ==
    /\ lastOp.run /\ lastOp.op = "erase" /\ lastOp.success
    /\ lastOp.prev.run /\ lastOp.prev.op = "apply" /\ lastOp.prev.success

\* the file holds none of the fields apply stamps
NoStampedTags ==
    /\ \A k \in ConfigKeys :
          /\ SegmentSlot(fdata, EXIF_TAGS[k][1], EXIF_TAGS[k][2]) = Missing
          /\ IfdSlot(fdata, SlotOfTag[EXIF_TAGS[k][2]]) = Missing
    /\ IfdSlot(fdata, "t34864") = Missing

\* C18 (as the specification states it): after an apply followed by a successful erase of
\* the same file none of the fields that apply wrote remain, neither as tags inside the
\* file nor in the sidecar at path + '.xmp' (the sidecar apply produced as its TIFF/DNG
\* fallback included).
C18_EraseStripsApplied ==
    AppliedThenErased =>
        /\ NoStampedTags
        /\ fside # generateXmpSidecar(lastOp.prev.selection)

\* what does hold: the tags inside a JPEG or TIFF/DNG file are gone, and the sidecar of a
\* raw file that is no DNG is removed; the sidecar of a TIFF or DNG file is left in place
C18_EraseStripsInPlace ==
    AppliedThenErased =>
        /\ getFileType(fpath) \in {"jpeg", "tiff", "dng"} =>
               NoStampedTags /\ fside = lastOp.sideBefore
        /\ getFileType(fpath) = "raw" => fside = NoSidecar /\ fdata = lastOp.before

\* C19: JPEG apply and JPEG erase change only the EXIF segment: the bytes of the container
\* outside the segment are the same, in the same order, before and after the call, and a
\* call that returns false leaves the file as it was.
C19_JpegFrame ==
    (lastOp.run /\ getFileType(fpath) = "jpeg") =>
        /\ fdata.fmt = lastOp.before.fmt
        /\ fdata.scan = lastOp.before.scan
        /\ ~lastOp.success => fdata = lastOp.before

\* an apply that replaced the EXIF segment of a JPEG holding bytes above 127 beside it
C19_Witness ==
    /\ lastOp.run /\ lastOp.op = "apply" /\ lastOp.success /\ getFileType(fpath) = "jpeg"
    /\ lastOp.before.exif = OldExif /\ fdata.exif # OldExif
    /\ fdata.scan = JpegScan /\ \E i \in 1..Len(JpegScan) : JpegScan[i] > 127

(***************************************************************************)
(* Properties of the sidecar document (SpecFile)                           *)
(***************************************************************************)
Absent(v) == v.t \in {"null", "undefined"}

\* C20 (as the specification states it): the sidecar written at path + '.xmp' holds one
\* element per populated field and omits the element of an absent value: the lens make and
\* lens model elements when the Selection has no lens, exif:PhotographicSensitivity unless
\* shotISO is present, dc:creator when the photographer is absent; creating the sidecar
\* never modifies the original file.
C20_SidecarElements ==
    SidecarWritten =>
        /\ fside.t = "xmp"
        /\ fdata = lastOp.before
        /\ LET el == fside.elements
               sel == lastOp.selection
           IN  /\ el.Make = TemplateString(sel.setup.camera.maker)
               /\ el.Model = TemplateString(sel.setup.camera.model)
               /\ el.ISOSpeedRatings = TemplateString(sel.film.iso)
               /\ IF Absent(sel.setup.lens)
                  THEN {"LensMake", "LensModel"} \cap DOMAIN el = {}
                  ELSE /\ el.LensMake = TemplateString(sel.setup.lens.maker)
                       /\ Str(el.LensModel) = getLensModelWithAperture(sel.setup.lens)
               /\ IF Absent(sel.shotISO)
                  THEN "PhotographicSensitivity" \notin DOMAIN el
                  ELSE /\ "PhotographicSensitivity" \in DOMAIN el
                       /\ el.PhotographicSensitivity = TemplateString(sel.shotISO)
               /\ IF Absent(sel.photographer)
                  THEN "creator" \notin DOMAIN el
                  ELSE "creator" \in DOMAIN el /\ el.creator = TemplateString(sel.photographer)

\* what does hold: the shot-ISO element is there exactly when shotISO is present, the file
\* is left alone, and every other element is always there, dc:creator with the text
\* 'undefined' when the Selection has no photographer
C20_SidecarElementsFixed ==
    SidecarWritten =>
        /\ fside.t = "xmp"
        /\ fdata = lastOp.before
        /\ LET el == fside.elements
               sel == lastOp.selection
           IN  /\ DOMAIN el \ {"PhotographicSensitivity"} =
                      {"Make", "Model", "LensMake", "LensModel", "ISOSpeedRatings", "creator"}
               /\ "PhotographicSensitivity" \in DOMAIN el <=> ~Absent(sel.shotISO)
               /\ el.creator = TemplateString(sel.photographer)
               /\ sel.photographer = Undefined =>
                      el.creator = <<"u","n","d","e","f","i","n","e","d">>

(***************************************************************************)
(* Properties of the JPEG serialization tiers (SpecFile)                   *)
(***************************************************************************)
\* how many steps of the last call are in a set, and where the first of them is
CountOf(events, es) == Cardinality({i \in 1..Len(events) : events[i] \in es})

FirstOf(events, es) ==
    IF HasAny(events, es)
    THEN CHOOSE i \in 1..Len(events) :
             events[i] \in es /\ \A j \in 1..(i - 1) : events[j] \notin es
    ELSE 0

FullTier == {"dump:full", "dump:full:throw"}
BasicTier == {"dump:basic", "dump:basic:throw"}
MinimalTier == {"dump:minimal", "dump:minimal:throw"}

\* the structure the last JPEG apply started from: what piexif.load returned, or the
\* clean structure when it threw
LoadedStart ==
    IF Has(lastOp.events, "load") THEN piexifLoad(lastOp.before).obj
    ELSE createCleanExifObject

\* the segment of the first tier that serialized in the last call
FirstSerialized ==
    IF Has(lastOp.events, "dump:full")
    THEN piexifDump(setAllExifValues(LoadedStart, lastOp.selection))
    ELSE IF Has(lastOp.events, "dump:basic")
    THEN piexifDump(basicExifObj(lastOp.selection))
    ELSE piexifDump(minimalExifObj(lastOp.selection))

\* C22: JPEG apply serializes through an ordered three-tier chain: the basic tier is
\* attempted only after the full tier failed, the minimal tier only after the basic tier
\* failed, no tier is attempted twice, the file is written at most once and only with the
\* output of the first tier that serialized, and apply fails because of serialization only
\* when the minimal tier failed too, in which case the file is not written.
C22_TierChain ==
    (lastOp.run /\ lastOp.op = "apply" /\ lastOp.events[1] = "jpeg") =>
        LET ev == lastOp.events
        IN  /\ CountOf(ev, FullTier) <= 1
            /\ CountOf(ev, BasicTier) <= 1
            /\ CountOf(ev, MinimalTier) <= 1
            /\ CountOf(ev, {"dump:full", "dump:basic", "dump:minimal"}) <= 1
            /\ HasAny(ev, BasicTier) =>
                   /\ Has(ev, "dump:full:throw")
                   /\ FirstOf(ev, BasicTier) = FirstOf(ev, FullTier) + 1
            /\ HasAny(ev, MinimalTier) =>
                   /\ Has(ev, "dump:basic:throw")
                   /\ FirstOf(ev, MinimalTier) = FirstOf(ev, BasicTier) + 1
            /\ Has(ev, "dump:full:throw") => HasAny(ev, BasicTier)
            /\ Has(ev, "dump:basic:throw") => HasAny(ev, MinimalTier)
            /\ CountOf(ev, {"write", "write:throw"}) <= 1
            /\ Has(ev, "write") =>
                   /\ lastOp.success
                   /\ fdata.exif = FirstSerialized
                   /\ FirstOf(ev, {"write"}) >
                          FirstOf(ev, {"dump:full", "dump:basic", "dump:minimal"})
            /\ ~Has(ev, "write") => fdata = lastOp.before
            /\ Has(ev, "dump:minimal:throw") =>
                   /\ lastOp.success = FALSE
                   /\ LastEvent = "dump:minimal:throw"
            /\ (~lastOp.success /\ HasAny(ev, FullTier)
                  /\ ~HasAny(ev, {"insert:throw", "write:throw"})) =>
                   Has(ev, "dump:minimal:throw")

\* an apply whose full and basic tiers failed and that wrote the minimal tier's segment
C22_Witness ==
    /\ lastOp.run /\ lastOp.op = "apply" /\ lastOp.success
    /\ lastOp.events = <<"jpeg", "validate", "read", "load", "dump:full:throw",
                         "dump:basic:throw", "dump:minimal", "insert", "write">>
    /\ fdata.exif = piexifDump(minimalExifObj(lastOp.selection))


\* the tags of a structure, as IFD and tag id
TagSet(obj) == UNION {{<<k, tag>> : tag \in DOMAIN obj[k]} : k \in IfdNames \cap DOMAIN obj}

\* the tags the full tier sets for a Selection, and the tags of the two fallback tiers
FullTierTags(selection) == TagSet(setAllExifValues(createCleanExifObject, selection))
BasicTierTags(selection) == TagSet(basicExifObj(selection))
MinimalTierTags(selection) == TagSet(minimalExifObj(selection))

\* the last call was a JPEG apply that reached the serialization chain
JpegSerialized ==
    /\ lastOp.run /\ lastOp.op = "apply" /\ lastOp.events[1] = "jpeg"
    /\ HasAny(lastOp.events, FullTier)

\* C23: the JPEG fallback tiers are monotone for every Selection: the tags of the basic
\* tier are a strict subset of the tags the full tier intended to write, the tags of the
\* minimal tier are a strict subset of the basic tier's, and no tier contains a tag that
\* the tier before it lacks.
C23_TiersMonotone ==
    JpegSerialized =>
        LET full == FullTierTags(lastOp.selection)
            basic == BasicTierTags(lastOp.selection)
            minimal == MinimalTierTags(lastOp.selection)
        IN  /\ basic \subseteq full /\ basic # full
            /\ minimal \subseteq basic /\ minimal # basic


\* the structure of createCleanExifObject: the five IFDs as empty maps, no thumbnail
CleanStructure ==
    /\ DOMAIN createCleanExifObject = {"0th", "Exif", "GPS", "Interop", "1st", "thumbnail"}
    /\ \A k \in {"0th", "Exif", "GPS", "Interop", "1st"} :
           DOMAIN createCleanExifObject[k] = {}
    /\ createCleanExifObject["thumbnail"] = Null

\* C24: a malformed or absent EXIF segment is not an error for JPEG apply: when
\* piexif.load throws, apply continues from the clean structure (all of '0th', 'Exif',
\* 'GPS', 'Interop', '1st' present as empty maps, thumbnail null), populates it and goes
\* on to serialization instead of returning false at the load step; a JPEG without a
\* segment loads without error.
C24_LoadFailureContinues ==
    (lastOp.run /\ lastOp.op = "apply" /\ lastOp.events[1] = "jpeg") =>
        LET ev == lastOp.events
        IN  /\ Has(ev, "load:throw") =>
                   /\ CleanStructure
                   /\ LoadedStart = createCleanExifObject
                   /\ FirstOf(ev, FullTier) = FirstOf(ev, {"load:throw"}) + 1
                   /\ Has(ev, "write") => lastOp.success /\ fdata.exif = FirstSerialized
                   /\ (Has(ev, "write") /\ Has(ev, "dump:full")) =>
                          TagSet([k \in IfdNames |->
                                     IF k \in DOMAIN fdata.exif.ifds
                                     THEN fdata.exif.ifds[k] ELSE <<>>])
                              = FullTierTags(lastOp.selection)
            /\ (Has(ev, "read") /\ lastOp.before.fmt = "jpeg"
                  /\ lastOp.before.exif = NoExif) => Has(ev, "load")

\* an apply on a JPEG whose segment piexif.load cannot read, which wrote the tags of the
\* Selection and nothing of the old segment
C24_Witness ==
    /\ lastOp.run /\ lastOp.op = "apply" /\ lastOp.success
    /\ lastOp.before.fmt = "jpeg" /\ lastOp.before.exif = CorruptExif
    /\ lastOp.events = <<"jpeg", "validate", "read", "load:throw", "dump:full",
                         "insert", "write">>
    /\ fdata.exif = piexifDump(setAllExifValues(createCleanExifObject, lastOp.selection))


(***************************************************************************)
(* Properties of the TIFF/DNG erase (SpecFile)                             *)
(***************************************************************************)
\* the last call was an erase that rewrote a TIFF container
TiffErasedInPlace ==
    /\ lastOp.run /\ lastOp.op = "erase" /\ lastOp.success
    /\ lastOp.events[1] = "tiff" /\ LastEvent = "write"

\* the slots that apply writes: Make, Model, Artist, ISO, shot ISO, lens make, lens model
AppliedSlots == {"t271", "t272", "t315", "t34855", "t34864", "t42035", "t42036"}

\* the allowlist as the specification enumerates it, and the properties of the decoded
\* image that carry its size and pixels
StatedAllowlist == {"t256", "t257", "t258", "t259", "t262", "t273", "t279"}
PayloadProps == {"width", "height", "data"}

\* C25 (as the specification states it): after a successful TIFF/DNG erase the rewritten
\* structure holds only the tags 256, 257, 258, 259, 262, 273 and 279 plus the pixel
\* payload; every other tag of the original is dropped, those that apply writes included.
C25_EraseAllowlist ==
    TiffErasedInPlace =>
        /\ DOMAIN fdata.ifd \subseteq StatedAllowlist \cup PayloadProps
        /\ DOMAIN fdata.ifd \cap AppliedSlots = {}
        /\ fdata.scan = lastOp.before.scan

\* what holds: the allowlist has nine tags, the seven above and samples-per-pixel 277 and
\* rows-per-strip 278; each of the nine that the original had is kept with its value, every
\* other tag is dropped, and the pixel payload is as it was
C25_EraseAllowlistNine ==
    TiffErasedInPlace =>
        /\ DOMAIN fdata.ifd \subseteq StatedAllowlist \cup {"t277", "t278"} \cup PayloadProps
        /\ DOMAIN fdata.ifd \cap AppliedSlots = {}
        /\ \A k \in (StatedAllowlist \cup {"t277", "t278"}) \cap DOMAIN lastOp.before.ifd :
               lastOp.before.ifd[k] # Undefined =>
                   k \in DOMAIN fdata.ifd /\ fdata.ifd[k] = lastOp.before.ifd[k]
        /\ fdata.scan = lastOp.before.scan

\* an erase of a TIFF that held tags apply had written, next to structural ones
C25_Witness ==
    /\ TiffErasedInPlace
    /\ lastOp.prev.run /\ lastOp.prev.op = "apply" /\ lastOp.prev.success
    /\ {"t271", "t272", "t34855", "t305"} \subseteq DOMAIN lastOp.before.ifd
    /\ {"t277", "t278"} \subseteq DOMAIN fdata.ifd
    /\ "t271" \notin DOMAIN fdata.ifd


(***************************************************************************)
(* Properties of the lens numbers (SpecPopulate)                           *)
(***************************************************************************)
\* what a structure holds for a tag
ObjSlot(obj, ifd, tag) ==
    IF ifd \in DOMAIN obj
    THEN IF tag \in DOMAIN obj[ifd] THEN obj[ifd][tag] ELSE Missing
    ELSE Missing

\* round(x) of a parsed decimal, half up
RoundOf(x) ==
    Once(x, LAMBDA d :
        IF d.t = "nan" THEN NaN
        ELSE Once(Pow10(d.scale), LAMBDA den : Num((2 * d.num + den) \div (2 * den))))

\* the pair is two integers
IntegerPair(v) ==
    /\ v.t = "array" /\ Len(v.a) = 2
    /\ \A i \in 1..2 : v.a[i].t = "number" /\ v.a[i].n \in Int

PopulatedLens == setCall.selection.setup.lens

\* the aperture is written as [round(value * 10), 10], and left alone when absent
ApertureRule ==
    LET written == ObjSlot(exifObj, "Exif", ExifIFD_FNumber)
    IN  IF Truthy(PopulatedLens.aperture)
        THEN /\ written = Arr(<<RoundTimes10(parseFloat(PopulatedLens.aperture)), Num(10)>>)
             /\ IntegerPair(written)
        ELSE written = ObjSlot(setCall.before, "Exif", ExifIFD_FNumber)

\* C26: populate encodes the lens numbers as integer rational pairs, the focal length as
\* [round(value), 1] and the aperture as [round(value * 10), 10], for integer and decimal
\* strings and 'A-B' focal ranges (value being the number the text starts with); both
\* components of a written pair are integers, and the tag is not written when the field
\* is absent.
C26_LensRationals ==
    setCall.run =>
        /\ ApertureRule
        /\ LET written == ObjSlot(exifObj, "Exif", ExifIFD_FocalLength)
           IN  IF Truthy(PopulatedLens.focalLength)
               THEN /\ written = Arr(<<RoundOf(parseFloat(PopulatedLens.focalLength)), Num(1)>>)
                    /\ IntegerPair(written)
               ELSE written = ObjSlot(setCall.before, "Exif", ExifIFD_FocalLength)

\* what does hold: the focal length is cut at its first character that is no digit and
\* not rounded, so 7.5 is written as [7, 1]
C26_LensRationalsTruncated ==
    setCall.run =>
        /\ ApertureRule
        /\ LET written == ObjSlot(exifObj, "Exif", ExifIFD_FocalLength)
           IN  IF Truthy(PopulatedLens.focalLength)
               THEN /\ written = Arr(<<parseInt(PopulatedLens.focalLength), Num(1)>>)
                    /\ IntegerPair(written)
               ELSE written = ObjSlot(setCall.before, "Exif", ExifIFD_FocalLength)


(***************************************************************************)
(* Order of the batch loop (Spec)                                          *)
(***************************************************************************)
\* the loop has started: results is the object of the loop
LoopStarted == pc = "loop" \/ (pc = "returned" /\ ret.success)

\* C27: batch processing is strictly sequential: the ExifManager call for a file is made
\* only when the result of every file before it has been recorded, so that at any moment
\* the calls made and the results recorded are the same prefix of the enumeration, and the
\* order of the entries of results.files is the enumeration order.
C27_Sequential ==
    LoopStarted =>
        /\ Len(results.files) <= Len(supportedFiles)
        /\ \A i \in 1..Len(results.files) :
               /\ results.files[i].name = supportedFiles[i].name
               /\ results.files[i].directory = supportedFiles[i].directory
        /\ args.action \in {"apply", "erase"} =>
               /\ Len(calls) = Len(results.files)
               /\ \A i \in 1..Len(calls) : calls[i].path = supportedFiles[i].path
        /\ pc = "returned" => Len(results.files) = Len(supportedFiles)

\* a finished batch over three files with different names, recorded in enumeration order
C27_Witness ==
    /\ pc = "returned" /\ ret.success
    /\ Len(supportedFiles) = 3 /\ Len(results.files) = 3 /\ Len(calls) = 3
    /\ supportedFiles[1].name # supportedFiles[2].name
    /\ supportedFiles[2].name # supportedFiles[3].name
    /\ \A i \in 1..3 : results.files[i].name = supportedFiles[i].name


(***************************************************************************)
(* Properties of the erase of proprietary raw files (SpecFile)             *)
(***************************************************************************)
\* the last call was an erase of a raw file that is no DNG
RawErased ==
    /\ lastOp.run /\ lastOp.op = "erase"
    /\ lastOp.events[1] = "raw" /\ ~isDngFile(fpath)

\* C30 (as the specification states it): erase of a raw file other than DNG never
\* modifies the raw file and always reports success; it removes path + '.xmp' when that
\* sidecar exists and does nothing when it is absent, so that after the erase no sidecar
\* exists for the file.
C30_RawEraseAlwaysSucceeds ==
    RawErased =>
        /\ fdata = lastOp.before
        /\ lastOp.success
        /\ fside = NoSidecar
        /\ LastEvent = (IF lastOp.sideBefore = NoSidecar THEN "nosidecar" ELSE "unlink")

\* what holds: the raw file is never modified; without a sidecar erase does nothing and
\* reports success; with a sidecar it removes it and reports success, unless
\* fs.unlinkSync throws, in which case it returns false and the sidecar stays
C30_RawEraseUnlessUnlinkFails ==
    RawErased =>
        /\ fdata = lastOp.before
        /\ IF lastOp.sideBefore = NoSidecar
           THEN lastOp.success /\ fside = NoSidecar /\ LastEvent = "nosidecar"
           ELSE \/ lastOp.success /\ fside = NoSidecar /\ LastEvent = "unlink"
                \/ ~lastOp.success /\ fside = lastOp.sideBefore /\ LastEvent = "unlink:throw"
        /\ lastOp.success => fside = NoSidecar

\* an erase that removed the sidecar an apply had written next to a raw file
C30_Witness ==
    /\ RawErased /\ lastOp.success /\ LastEvent = "unlink"
    /\ lastOp.prev.run /\ lastOp.prev.op = "apply" /\ lastOp.prev.success
    /\ lastOp.sideBefore # NoSidecar /\ fside = NoSidecar


(***************************************************************************)
(* Properties of the equipment store (SpecStore)                           *)
(***************************************************************************)
\* the ids of a collection
IdsOf(coll) == {coll[i].id : i \in 1..Len(coll)}

\* the message has the words in it, in a row
Contains(message, words) ==
    \E i \in 1..(Len(message) - Len(words) + 1) :
        SubSeq(message, i, i + Len(words) - 1) = words

UsedInExistingSetups == <<"used", "in", "existing", "setups">>

\* every setup of the data references a camera and a lens that exist
Integrity(data) ==
    \A i \in 1..Len(data.setups) :
        /\ data.setups[i].cameraId \in IdsOf(data.cameras)
        /\ data.setups[i].lensId \in IdsOf(data.lenses)

\* the ids some setup of the data uses as camera, as lens
CamerasInUse(data) == {data.setups[i].cameraId : i \in 1..Len(data.setups)}
LensesInUse(data) == {data.setups[i].lensId : i \in 1..Len(data.setups)}

SameIteration(j, i) == j < i /\ \A k \in (j + 1)..i : session[k].ev # "menu"

\* what follows event i is the main menu again
BackAtMenu(i) == IF i = Len(session) THEN cli.pc = "menu" ELSE session[i + 1].ev = "menu"

EraseStarted(i) == session[i].ev = "processFolder" /\ session[i].v.action = "erase"

ConfirmAnswered(i, value) ==
    session[i].ev = "confirm" /\ session[i].v.threw = "none" /\ session[i].v.value = value

\* C28: in the interactive loop erase is never executed without an explicit confirmation:
\* processFolder with action 'erase' is invoked only after confirmEraseExif returned true in
\* the same menu iteration (its default answer is no), and when the confirmation is
\* declined no file is touched and control returns to the main menu.
C28_EraseConfirmed ==
    /\ confirmEraseExif("enter") = Returned(Bool(FALSE))
    /\ \A i \in 1..Len(session) :
        /\ EraseStarted(i) =>
               \E j \in 1..(i - 1) : ConfirmAnswered(j, Bool(TRUE)) /\ SameIteration(j, i)
        /\ ConfirmAnswered(i, Bool(FALSE)) =>
               /\ BackAtMenu(i)
               /\ \A k \in (i + 1)..Len(session) :
                      session[k].ev = "processFolder" => ~SameIteration(i, k)

\* a session in which an erase was declined, and asked for again and confirmed
C28_Witness ==
    \E i, j, k \in 1..Len(session) :
        /\ i < j /\ j < k
        /\ ConfirmAnswered(i, Bool(FALSE)) /\ session[i + 1].ev = "menu"
        /\ ConfirmAnswered(j, Bool(TRUE))
        /\ EraseStarted(k) /\ session[k].v.found = 2 /\ SameIteration(j, k)

\* event i is a wrapped prompt whose CancelledError wrapWithCancelHandler absorbed
Cancelled(i) == session[i].ev \in {"select", "folder"} /\ session[i].v.absorbed

\* other errors go through promptWithCancel and wrapWithCancelHandler and end the loop
ErrorsPropagate ==
    \A i \in 1..Len(session) :
        (session[i].ev \in {"select", "folder"} /\ session[i].v.threw # "none") =>
            /\ session[i].v.threw = "Error"
            /\ i = Len(session) /\ cli.pc = "crashed"

\* C29 (as the specification states it): a cancelled prompt never ends the program or
\* starts a batch: when a wrapped prompt (setup/film selection, folder path) is cancelled,
\* the CancelledError is absorbed by wrapWithCancelHandler and the main loop returns to the
\* main menu without invoking processFolder; every other error propagates.
C29_CancelReturnsToMenu ==
    /\ ErrorsPropagate
    /\ \A i \in 1..Len(session) :
        Cancelled(i) =>
            /\ session[i].v.threw = "none"
            /\ BackAtMenu(i)
            /\ \A k \in (i + 1)..Len(session) :
                   session[k].ev = "processFolder" => ~SameIteration(i, k)

\* what holds: a cancelled selection returns to the main menu; after a cancelled folder
\* prompt the loop goes on with folderPath undefined, and a processFolder it reaches finds
\* no file
C29_CancelTouchesNothing ==
    /\ ErrorsPropagate
    /\ \A i \in 1..Len(session) :
        Cancelled(i) =>
            /\ session[i].v.threw = "none"
            /\ session[i].ev = "select" => BackAtMenu(i)
            /\ \A k \in (i + 1)..Len(session) :
                   (session[k].ev = "processFolder" /\ SameIteration(i, k)) =>
                       session[k].v.folderPath = Undefined /\ session[k].v.found = 0

====
